---- MODULE Spec2Model ----
(***************************************************************************)
(* SOCKS4 / SOCKS5 wire codec and handshake orchestration of socks-parser. *)
(*                                                                         *)
(* Bytes are naturals 0..255 and buffers are sequences of bytes.  A decode *)
(* result is a record [k, rest, v, ctx]: k is nom's outcome ("Ok", or one  *)
(* of nom::Err's variants "Error", "Failure", "Incomplete"), rest is the   *)
(* unconsumed input, v the decoded value and ctx the chain of error kinds  *)
(* and context labels a VerboseError accumulates, innermost first.         *)
(***************************************************************************)
EXTENDS Naturals, Sequences, FiniteSets, TLC

VARIABLES
    pc,            \* position of the connection unit / client / codec driver
    buffer,        \* the Vec<u8> named `buffer` in server.rs and client.rs
    n,             \* the count returned by the last read_buf
    version,       \* server: the sniffed Version; client: Client::version
    hello,         \* server: the decoded v5 Hello (its method list)
    method,        \* server: the method chosen for the HelloResponse
    req,           \* the Request: decoded by the server, built by the client
    decoded,       \* outcome (k) of every Wire::decode call made so far
    resolverCalls, \* the ConnectionRequests handed to handle_request
    resolved,      \* what handle_request returned
    out,           \* the byte strings handed to write_all, in order
    reads,         \* the byte strings read_buf delivered, in order
    handlerCalls,  \* the stream pairs handed to handle_stream
    result,        \* the io::Result the unit / connect() returned
    log            \* the steps taken so far, in order

vars == <<pc, buffer, n, version, hello, method, req, decoded, resolverCalls,
          resolved, out, reads, handlerCalls, result, log>>

(***************************************************************************)
(* nom primitives                                                          *)
(***************************************************************************)
Ok(rest, v) == [k |-> "Ok", rest |-> rest, v |-> v, ctx |-> <<>>]

NomErr(kind, code) == [k |-> kind, rest |-> <<>>, v |-> <<>>, ctx |-> <<code>>]

Incomplete == [k |-> "Incomplete", rest |-> <<>>, v |-> <<>>, ctx |-> <<>>]

\* nom::error::context: labels an Error or a Failure, passes Incomplete on.
Context(label, r) ==
    IF r.k \in {"Error", "Failure"} THEN [r EXCEPT !.ctx = Append(@, label)] ELSE r

\* sequencing of two parsers (preceded / tuple): the second runs on the rest.
Bind(r, F(_)) == IF r.k = "Ok" THEN F(r) ELSE r

\* nom::combinator::opt: an Error becomes Ok(None) on the same input.
NoneStr == [some |-> FALSE, s |-> <<>>]

SomeStr(s) == [some |-> TRUE, s |-> s]

\* a remainder cut from the front of the input instead of from its end
DropFromEnd(i, c) == SubSeq(i, 1, Len(i) - c)

Drop(i, c) == SubSeq(i, c + 1, Len(i))

BeU8Complete(i) ==
    IF Len(i) < 1 THEN NomErr("Error", "Eof") ELSE Ok(Drop(i, 1), i[1])

BeU8Streaming(i) ==
    IF Len(i) < 1 THEN Incomplete ELSE Ok(Drop(i, 1), i[1])

BeU16Complete(i) ==
    IF Len(i) < 2 THEN NomErr("Error", "Eof") ELSE Ok(Drop(i, 2), i[1] * 256 + i[2])

BeU16Streaming(i) ==
    IF Len(i) < 2 THEN Incomplete ELSE Ok(Drop(i, 2), i[1] * 256 + i[2])

TakeStreaming(c, i) ==
    IF Len(i) < c THEN Incomplete ELSE Ok(Drop(i, c), SubSeq(i, 1, c))

\* u16::to_be_bytes
U16Bytes(p) == <<p \div 256, p % 256>>

\* std::str::from_utf8(b).is_ok(): well-formed UTF-8 (Unicode table 3-7).
\* a from_utf8 that lets every byte string through as a name
Utf8Lossy(b) == TRUE

IsCont(b) == b >= 128 /\ b <= 191

RECURSIVE Utf8Valid(_)
Utf8Valid(b) ==
    IF Len(b) = 0 THEN TRUE
    ELSE LET c == b[1]
             l == Len(b) IN
        IF c < 128 THEN Utf8Valid(Drop(b, 1))
        ELSE IF c >= 194 /\ c <= 223
            THEN l >= 2 /\ IsCont(b[2]) /\ Utf8Valid(Drop(b, 2))
        ELSE IF c >= 224 /\ c <= 239
            THEN /\ l >= 3
                 /\ IsCont(b[2]) /\ IsCont(b[3])
                 /\ (c = 224 => b[2] >= 160)
                 /\ (c = 237 => b[2] <= 159)
                 /\ Utf8Valid(Drop(b, 3))
        ELSE IF c >= 240 /\ c <= 244
            THEN /\ l >= 4
                 /\ IsCont(b[2]) /\ IsCont(b[3]) /\ IsCont(b[4])
                 /\ (c = 240 => b[2] >= 144)
                 /\ (c = 244 => b[2] <= 143)
                 /\ Utf8Valid(Drop(b, 4))
        ELSE FALSE

(***************************************************************************)
(* Enumerations                                                            *)
(***************************************************************************)
\* Version with both variants, and the Wire impls of Ipv4Addr / Ipv6Addr, are
\* what server.rs, client.rs, request.rs and response.rs are written against.
VersionByte(v) == IF v = "Socks4" THEN 4 ELSE 5

VersionEncodeInto(v, buf) == Append(buf, VersionByte(v))

VersionDecode(i) ==
    Context("SocksVersion",
        LET r == BeU8Streaming(i) IN
        IF r.k # "Ok" THEN r
        ELSE IF r.v = 4 THEN Ok(r.rest, "Socks4")
        ELSE IF r.v = 5 THEN Ok(r.rest, "Socks5")
        ELSE NomErr("Error", "MapOpt"))

\* verify(Version::decode, |&v| v == want)
\* a version check that lets either SOCKS version through
VerifyVersionAny(i, want) == VersionDecode(i)

VerifyVersion(i, want) ==
    LET r == VersionDecode(i) IN
    IF r.k # "Ok" THEN r
    ELSE IF r.v = want THEN r
    ELSE NomErr("Error", "Verify")

Ipv4EncodeInto(ip, buf) == buf \o ip

Ipv4Decode(i) == TakeStreaming(4, i)

Ipv6EncodeInto(ip, buf) == buf \o ip

Ipv6Decode(i) == TakeStreaming(16, i)

\* 0u32.into(): the all-zero Ipv4Addr
Ipv4Zero == <<0, 0, 0, 0>>

\* impl From<u8> for AuthenticationMethod
AuthenticationMethodFrom(b) ==
    IF b = 0 THEN [tag |-> "None", v |-> 0]
    ELSE IF b = 1 THEN [tag |-> "Gssapi", v |-> 0]
    ELSE IF b = 2 THEN [tag |-> "UsernamePassword", v |-> 0]
    ELSE IF b >= 3 /\ b <= 127 THEN [tag |-> "IanaAssigned", v |-> b]
    ELSE IF b >= 128 /\ b <= 254 THEN [tag |-> "PrivateMethod", v |-> b]
    ELSE [tag |-> "NotAcceptable", v |-> 0]

MethodNone == [tag |-> "None", v |-> 0]

MethodNotAcceptable == [tag |-> "NotAcceptable", v |-> 0]

\* AuthenticationMethod::as_u8
\* an as_u8 that has no byte of its own for NotAcceptable
AuthenticationMethodAsU8Lossy(m) ==
    IF m.tag = "None" THEN 0
    ELSE IF m.tag = "Gssapi" THEN 1
    ELSE IF m.tag = "UsernamePassword" THEN 2
    ELSE IF m.tag = "NotAcceptable" THEN 0
    ELSE m.v

AuthenticationMethodAsU8(m) ==
    IF m.tag = "None" THEN 0
    ELSE IF m.tag = "Gssapi" THEN 1
    ELSE IF m.tag = "UsernamePassword" THEN 2
    ELSE IF m.tag = "NotAcceptable" THEN 255
    ELSE m.v

AuthenticationMethodEncodeInto(m, buf) == Append(buf, AuthenticationMethodAsU8(m))

AuthenticationMethodDecode(i) ==
    Context("SocksVersion",
        LET r == BeU8Complete(i) IN
        IF r.k # "Ok" THEN r ELSE Ok(r.rest, AuthenticationMethodFrom(r.v)))

V5CommandByte(c) ==
    IF c = "Connect" THEN 1 ELSE IF c = "Bind" THEN 2 ELSE 3

V5CommandEncodeInto(c, buf) == Append(buf, V5CommandByte(c))

V5CommandDecode(i) ==
    LET r == Context("Socks V5 command", BeU8Complete(i)) IN
    IF r.k # "Ok" THEN r
    ELSE IF r.v = 1 THEN Ok(r.rest, "Connect")
    ELSE IF r.v = 2 THEN Ok(r.rest, "Bind")
    ELSE IF r.v = 3 THEN Ok(r.rest, "UdpAssociate")
    ELSE NomErr("Failure", "NoneOf")

V4CommandByte(c) == IF c = "Connect" THEN 1 ELSE 2

V4CommandEncodeInto(c, buf) == Append(buf, V4CommandByte(c))

V4CommandDecode(i) ==
    LET r == Context("Socks V5 command", BeU8Complete(i)) IN
    IF r.k # "Ok" THEN r
    ELSE IF r.v = 1 THEN Ok(r.rest, "Connect")
    ELSE IF r.v = 2 THEN Ok(r.rest, "Bind")
    ELSE NomErr("Failure", "NoneOf")

\* impl From<u8> for v5::Status
\* a From<u8> that folds every unknown byte into GeneralFailure
V5StatusFromLossy(b) ==
    IF b = 0 THEN [tag |-> "Success", v |-> 0]
    ELSE IF b = 2 THEN [tag |-> "ConnectionNotAllowed", v |-> 0]
    ELSE IF b = 3 THEN [tag |-> "NetworkUnreachable", v |-> 0]
    ELSE IF b = 4 THEN [tag |-> "HostUnreachalble", v |-> 0]
    ELSE IF b = 5 THEN [tag |-> "ConnectionRefused", v |-> 0]
    ELSE IF b = 6 THEN [tag |-> "TTLExpired", v |-> 0]
    ELSE IF b = 7 THEN [tag |-> "CommandNotSupported", v |-> 0]
    ELSE [tag |-> "GeneralFailure", v |-> 0]

V5StatusFrom(b) ==
    IF b = 0 THEN [tag |-> "Success", v |-> 0]
    ELSE IF b = 1 THEN [tag |-> "GeneralFailure", v |-> 0]
    ELSE IF b = 2 THEN [tag |-> "ConnectionNotAllowed", v |-> 0]
    ELSE IF b = 3 THEN [tag |-> "NetworkUnreachable", v |-> 0]
    ELSE IF b = 4 THEN [tag |-> "HostUnreachalble", v |-> 0]
    ELSE IF b = 5 THEN [tag |-> "ConnectionRefused", v |-> 0]
    ELSE IF b = 6 THEN [tag |-> "TTLExpired", v |-> 0]
    ELSE IF b = 7 THEN [tag |-> "CommandNotSupported", v |-> 0]
    ELSE [tag |-> "Unassigned", v |-> b]

V5Success == [tag |-> "Success", v |-> 0]

V5GeneralFailure == [tag |-> "GeneralFailure", v |-> 0]

V5StatusByte(s) ==
    IF s.tag = "Success" THEN 0
    ELSE IF s.tag = "GeneralFailure" THEN 1
    ELSE IF s.tag = "ConnectionNotAllowed" THEN 2
    ELSE IF s.tag = "NetworkUnreachable" THEN 3
    ELSE IF s.tag = "HostUnreachalble" THEN 4
    ELSE IF s.tag = "ConnectionRefused" THEN 5
    ELSE IF s.tag = "TTLExpired" THEN 6
    ELSE IF s.tag = "CommandNotSupported" THEN 7
    ELSE s.v

V5StatusEncodeInto(s, buf) == Append(buf, V5StatusByte(s))

V5StatusDecode(i) ==
    Context("Socks status",
        LET r == BeU8Streaming(i) IN
        IF r.k # "Ok" THEN r ELSE Ok(r.rest, V5StatusFrom(r.v)))

\* v4::Status is #[repr(u8)] with Success = 0x5a .. InetdNotIdentified = 0x5d
V4StatusByte(s) ==
    IF s = "Success" THEN 90
    ELSE IF s = "Rejected" THEN 91
    ELSE IF s = "InetdNotAccessible" THEN 92
    ELSE 93

V4StatusEncodeInto(s, buf) == Append(buf, V4StatusByte(s))

V4StatusDecode(i) ==
    LET r == Context("status", BeU8Streaming(i)) IN
    IF r.k # "Ok" THEN r
    ELSE IF r.v = 90 THEN Ok(r.rest, "Success")
    ELSE IF r.v = 91 THEN Ok(r.rest, "Rejected")
    ELSE IF r.v = 92 THEN Ok(r.rest, "InetdNotAccessible")
    ELSE IF r.v = 93 THEN Ok(r.rest, "InetdNotIdentified")
    ELSE NomErr("Failure", "NoneOf")

(***************************************************************************)
(* Address types.  A v5 address is [tag, data] with tag IPv4 (4 octets),   *)
(* DomainName (the bytes of the String) or IPv6 (16 octets); a v4 address  *)
(* is [v4tag, data] with v4tag IPv4 or DomainName.                         *)
(***************************************************************************)
\* the largest name length `name.len().try_into()` fits into a u8
NameLimit == 255

V5IPv4(ip) == [tag |-> "IPv4", data |-> ip]

V5DomainName(name) == [tag |-> "DomainName", data |-> name]

V5IPv6(ip) == [tag |-> "IPv6", data |-> ip]

V4IPv4(ip) == [v4tag |-> "IPv4", data |-> ip]

V4DomainName(name) == [v4tag |-> "DomainName", data |-> name]

\* `.expect("Domain name too long")` fires
V5AddressTypeEncodePanics(a) == a.tag = "DomainName" /\ Len(a.data) > NameLimit

V5AddressTypeEncodeInto(a, buf) ==
    IF a.tag = "IPv4" THEN Ipv4EncodeInto(a.data, Append(buf, 1))
    ELSE IF a.tag = "IPv6" THEN Ipv6EncodeInto(a.data, Append(buf, 4))
    ELSE Append(Append(buf, 3), Len(a.data)) \o a.data

\* nom::multi::length_data(be_u8) under number::complete
LengthData(i) ==
    LET r == BeU8Complete(i) IN
    IF r.k # "Ok" THEN r
    ELSE IF r.v > Len(r.rest) THEN Incomplete
    ELSE Ok(Drop(r.rest, r.v), SubSeq(r.rest, 1, r.v))

\* a decode that takes every unknown tag for the IPv4 one
V5AddressTypeDecodeDefaulting(i) ==
    LET t == Context("address type", BeU8Complete(i)) IN
    IF t.k # "Ok" THEN t
    ELSE IF t.v = 3
        THEN Context("domain name",
                LET r == LengthData(t.rest) IN
                IF r.k # "Ok" THEN r
                ELSE IF Utf8Valid(r.v) THEN Ok(r.rest, V5DomainName(r.v))
                ELSE NomErr("Error", "MapOpt"))
    ELSE IF t.v = 4
        THEN LET r == Ipv6Decode(t.rest) IN
             IF r.k # "Ok" THEN r ELSE Ok(r.rest, V5IPv6(r.v))
    ELSE LET r == Ipv4Decode(t.rest) IN
         IF r.k # "Ok" THEN r ELSE Ok(r.rest, V5IPv4(r.v))

V5AddressTypeDecode(i) ==
    LET t == Context("address type", BeU8Complete(i)) IN
    IF t.k # "Ok" THEN t
    ELSE IF t.v = 1
        THEN LET r == Ipv4Decode(t.rest) IN
             IF r.k # "Ok" THEN r ELSE Ok(r.rest, V5IPv4(r.v))
    ELSE IF t.v = 3
        THEN Context("domain name",
                LET r == LengthData(t.rest) IN
                IF r.k # "Ok" THEN r
                ELSE IF Utf8Valid(r.v) THEN Ok(r.rest, V5DomainName(r.v))
                ELSE NomErr("Error", "MapOpt"))
    ELSE IF t.v = 4
        THEN LET r == Ipv6Decode(t.rest) IN
             IF r.k # "Ok" THEN r ELSE Ok(r.rest, V5IPv6(r.v))
    ELSE Context("Invalid address type", NomErr("Failure", "NoneOf"))

\* impl TryFrom<v5::AddressType> for v4::AddressType
\* a conversion that turns an IPv6 address into 0.0.0.0 instead of failing
V4AddressTryFromZeroing(a) ==
    IF a.tag = "IPv4" THEN [ok |-> TRUE, v |-> V4IPv4(a.data)]
    ELSE IF a.tag = "DomainName" THEN [ok |-> TRUE, v |-> V4DomainName(a.data)]
    ELSE [ok |-> TRUE, v |-> V4IPv4(Ipv4Zero)]

V4AddressTryFrom(a) ==
    IF a.tag = "IPv4" THEN [ok |-> TRUE, v |-> V4IPv4(a.data)]
    ELSE IF a.tag = "DomainName" THEN [ok |-> TRUE, v |-> V4DomainName(a.data)]
    ELSE [ok |-> FALSE, v |-> V4IPv4(Ipv4Zero)]

\* impl From<v4::AddressType> for v5::AddressType
V5AddressFromV4(a) ==
    IF a.v4tag = "IPv4" THEN V5IPv4(a.data) ELSE V5DomainName(a.data)

\* impl From<(v5::AddressType, u16)> for Destination
DestinationFromV5(addr, port) == [addr |-> addr, port |-> port]

\* a conversion that stores the port with its two bytes exchanged
DestinationFromV4PortSwapped(addr, port) ==
    [addr |-> V5AddressFromV4(addr), port |-> (port % 256) * 256 + (port \div 256)]

\* impl From<(v4::AddressType, u16)> for Destination
DestinationFromV4(addr, port) == [addr |-> V5AddressFromV4(addr), port |-> port]

\* impl<T: Into<Destination>> From<T> for ConnectionRequest
ConnectionRequestFrom(dest) == [destination |-> dest]

(***************************************************************************)
(* Messages                                                                *)
(***************************************************************************)
\* `.expect("Too many available methods")` fires
HelloEncodePanics(h) == Len(h.methods) > 255

RECURSIVE MethodsEncodeInto(_, _)
MethodsEncodeInto(ms, buf) ==
    IF Len(ms) = 0 THEN buf
    ELSE MethodsEncodeInto(Tail(ms), AuthenticationMethodEncodeInto(Head(ms), buf))

HelloEncodeInto(h, buf) ==
    MethodsEncodeInto(h.methods,
        Append(VersionEncodeInto("Socks5", buf), Len(h.methods)))

\* nom::multi::length_count(be_u8, AuthenticationMethod::decode): the loop
RECURSIVE CountMethods(_, _, _)
CountMethods(i, c, acc) ==
    IF c = 0 THEN Ok(i, acc)
    ELSE LET r == AuthenticationMethodDecode(i) IN
         IF r.k = "Ok" THEN CountMethods(r.rest, c - 1, Append(acc, r.v))
         ELSE IF r.k = "Error" THEN [r EXCEPT !.ctx = Append(@, "Count")]
         ELSE r

LengthCountMethods(i) ==
    LET c == BeU8Complete(i) IN
    IF c.k # "Ok" THEN c ELSE CountMethods(c.rest, c.v, <<>>)

HelloDecode(i) ==
    Context("Hello",
        LET r == Bind(VerifyVersion(i, "Socks5"), LAMBDA v : LengthCountMethods(v.rest)) IN
        IF r.k # "Ok" THEN r ELSE Ok(r.rest, [methods |-> r.v]))

HelloResponseEncodeInto(h, buf) ==
    AuthenticationMethodEncodeInto(h.method, VersionEncodeInto("Socks5", buf))

HelloResponseDecode(i) ==
    Context("Hello response",
        LET r == Bind(VerifyVersion(i, "Socks5"),
                      LAMBDA v : AuthenticationMethodDecode(v.rest)) IN
        IF r.k # "Ok" THEN r ELSE Ok(r.rest, [method |-> r.v]))

V5RequestEncodeInto(r, buf) ==
    V5AddressTypeEncodeInto(r.addr,
        Append(V5CommandEncodeInto(r.command, VersionEncodeInto("Socks5", buf)), 0))
      \o U16Bytes(r.port)

V5RequestDecode(i) ==
    Context("Request",
        Bind(VerifyVersion(i, "Socks5"), LAMBDA v :
        Bind(V5CommandDecode(v.rest), LAMBDA c :
        Bind(BeU8Complete(c.rest), LAMBDA z :
        Bind(V5AddressTypeDecode(z.rest), LAMBDA a :
        Bind(BeU16Complete(a.rest), LAMBDA p :
        Ok(p.rest, [command |-> c.v, addr |-> a.v, port |-> p.v])))))))

V5ResponseEncodeInto(r, buf) ==
    V5AddressTypeEncodeInto(r.addr,
        Append(V5StatusEncodeInto(r.status, VersionEncodeInto("Socks5", buf)), 0))
      \o U16Bytes(r.port)

V5ResponseDecode(i) ==
    Context("Socks response",
        Bind(VerifyVersion(i, "Socks5"), LAMBDA v :
        Bind(V5StatusDecode(v.rest), LAMBDA s :
        Bind(BeU8Streaming(s.rest), LAMBDA z :
        Bind(V5AddressTypeDecode(z.rest), LAMBDA a :
        Bind(BeU16Streaming(a.rest), LAMBDA p :
        Ok(p.rest, [status |-> s.v, addr |-> a.v, port |-> p.v])))))))

\* v4::encode_string
EncodeString(s, buf) == Append(IF s.some THEN buf \o s.s ELSE buf, 0)

\* take_while1(|b| b.is_ascii() && b != 0) under bytes::complete: the length of
\* the longest prefix it takes
RECURSIVE AsciiRun(_)
AsciiRun(i) ==
    IF Len(i) = 0 \/ i[1] = 0 \/ i[1] >= 128 THEN 0 ELSE 1 + AsciiRun(Tail(i))

\* v4::decode_string
DecodeString(i) ==
    Context("string",
        LET run  == AsciiRun(i)
            rest == Drop(i, run) IN
        IF Len(rest) = 0 \/ rest[1] # 0 THEN NomErr("Error", "Tag")
        ELSE IF run = 0 THEN Ok(Tail(rest), NoneStr)
        ELSE IF Utf8Valid(SubSeq(i, 1, run)) THEN Ok(Tail(rest), SomeStr(SubSeq(i, 1, run)))
        ELSE Ok(Tail(rest), NoneStr))

\* opt(decode_string): v is [present, str]
\* an opt(decode_string) that passes an empty string off as no string at all
OptDecodeStringSkippingEmpty(i) ==
    LET r == DecodeString(i) IN
    IF r.k = "Ok" /\ r.v.some THEN Ok(r.rest, [present |-> TRUE, str |-> r.v])
    ELSE IF r.k = "Ok" \/ r.k = "Error" THEN Ok(i, [present |-> FALSE, str |-> NoneStr])
    ELSE r

OptDecodeString(i) ==
    LET r == DecodeString(i) IN
    IF r.k = "Ok" THEN Ok(r.rest, [present |-> TRUE, str |-> r.v])
    ELSE IF r.k = "Error" THEN Ok(i, [present |-> FALSE, str |-> NoneStr])
    ELSE r

V4RequestEncodeInto(r, buf) ==
    LET b == V4CommandEncodeInto(r.command, VersionEncodeInto("Socks4", buf))
               \o U16Bytes(r.port) IN
    IF r.addr.v4tag = "IPv4"
        THEN EncodeString(r.secret, b \o r.addr.data)
        ELSE EncodeString(SomeStr(r.addr.data),
                 EncodeString(r.secret, b \o <<0, 0, 0, 1>>))

V4RequestDecode(i) ==
    LET t == Context("Socks request",
                Bind(VerifyVersion(i, "Socks4"), LAMBDA v :
                Bind(V4CommandDecode(v.rest), LAMBDA c :
                Bind(BeU16Complete(c.rest), LAMBDA p :
                Bind(BeU8Complete(p.rest), LAMBDA a1 :
                Bind(BeU8Complete(a1.rest), LAMBDA a2 :
                Bind(BeU8Complete(a2.rest), LAMBDA a3 :
                Bind(BeU8Complete(a3.rest), LAMBDA a4 :
                Bind(DecodeString(a4.rest), LAMBDA s :
                Bind(OptDecodeString(s.rest), LAMBDA d :
                Ok(d.rest, [command |-> c.v, port |-> p.v,
                            ip |-> <<a1.v, a2.v, a3.v, a4.v>>,
                            secret |-> s.v, name |-> d.v])))))))))))
    IN
    IF t.k # "Ok" THEN t
    ELSE IF t.v.name.present /\ t.v.name.str.some
        THEN Ok(t.rest, [command |-> t.v.command, addr |-> V4DomainName(t.v.name.str.s),
                         port |-> t.v.port, secret |-> t.v.secret])
    ELSE IF t.v.name.present
        THEN Context("Got empty domain name", NomErr("Failure", "Verify"))
    ELSE Ok(t.rest, [command |-> t.v.command, addr |-> V4IPv4(t.v.ip),
                     port |-> t.v.port, secret |-> t.v.secret])

\* a v4 Response led by the version byte 4 in place of the null byte
V4ResponseEncodeIntoVersioned(r, buf) ==
    Ipv4EncodeInto(r.addr, V4StatusEncodeInto(r.status, Append(buf, 4)) \o U16Bytes(r.port))

V4ResponseEncodeInto(r, buf) ==
    Ipv4EncodeInto(r.addr, V4StatusEncodeInto(r.status, Append(buf, 0)) \o U16Bytes(r.port))

V4ResponseDecode(i) ==
    Context("response",
        LET z == BeU8Streaming(i)
            h == IF z.k # "Ok" THEN z
                 ELSE IF z.v = 0 THEN z ELSE NomErr("Error", "Verify") IN
        Bind(h, LAMBDA v :
        Bind(V4StatusDecode(v.rest), LAMBDA s :
        Bind(BeU16Streaming(s.rest), LAMBDA p :
        Bind(Ipv4Decode(p.rest), LAMBDA a :
        Ok(a.rest, [status |-> s.v, addr |-> a.v, port |-> p.v]))))))

(***************************************************************************)
(* Bounds and the inputs drawn from them                                   *)
(***************************************************************************)
\* longest method list a client Hello offers
MaxMethods == 2

\* longest domain name a client asks for
MaxNameLen == 2

SeqsUpTo(S, k) == UNION {[1..m -> S] : m \in 0..k}

Prefixes(b) == {SubSeq(b, 1, m) : m \in 0..Len(b)}

StrictPrefixes(b) == {SubSeq(b, 1, m) : m \in 0..(Len(b) - 1)}

\* offered method bytes: None, UsernamePassword, NotAcceptable
MethodBytes == {0, 2, 255}

MethodLists ==
    {[i \in 1..Len(bs) |-> AuthenticationMethodFrom(bs[i])] : bs \in SeqsUpTo(MethodBytes, MaxMethods)}

Names == SeqsUpTo({97}, MaxNameLen) \ {<<>>}

Ports == {80, 443}

ExampleIp == <<93, 184, 216, 34>>

Ip6 == [i \in 1..16 |-> IF i = 16 THEN 1 ELSE 0]

\* a name one byte longer than a length byte can say
LongName == [i \in 1..(NameLimit + 1) |-> 97]

ClientHellos == {HelloEncodeInto([methods |-> ms], <<>>) : ms \in MethodLists}

\* bytes a client may send after a Hello without waiting for the reply
Pipelined == {<<>>, <<5, 1, 0, 1, 10, 0, 0, 1, 0, 80>>}

\* the wire forms of a v4 Request: any command byte, any ip4 field, with or
\* without a user id, followed by nothing, a name, an empty name or garbage
V4Wire ==
    {<<4, c>> \o U16Bytes(80) \o ip \o u \o <<0>> \o t :
        c \in {1, 2, 3}, ip \in {ExampleIp, <<0, 0, 0, 1>>},
        u \in {<<>>, <<117>>},
        t \in {<<>>, <<0>>, <<200>>} \cup {nm \o <<0>> : nm \in Names}}

\* the wire forms of a v5 Request: any command byte, any tagged address
V5Wire ==
    {<<5, c, 0>> \o a \o U16Bytes(p) :
        c \in {1, 2, 3, 9}, p \in Ports,
        a \in {<<1>> \o ExampleIp, <<4>> \o Ip6, <<3, 1, 255>>, <<7>>}
                \cup {<<3, Len(nm)>> \o nm : nm \in Names}}

FirstReads ==
    UNION {Prefixes(h) : h \in ClientHellos}
      \cup {h \o t : h \in ClientHellos, t \in Pipelined}
      \cup UNION {Prefixes(r) : r \in V4Wire}
      \cup {<<6>>, <<0, 90>>}

SecondReads ==
    UNION {Prefixes(r) : r \in V5Wire}
      \cup {<<5, 1, 0, 1>> \o ExampleIp \o U16Bytes(80) \o <<71, 69, 84>>,
            <<4, 1, 0, 80, 10, 0, 0, 1, 0>>}

\* what handle_request may return: an error, or a stream and the Destination
\* reached, which need not be the one asked for
Destinations ==
    {[addr |-> V5IPv4(ExampleIp), port |-> 80],
     [addr |-> V5DomainName(<<97, 98>>), port |-> 443],
     [addr |-> V5IPv6(Ip6), port |-> 443],
     [addr |-> V5DomainName(LongName), port |-> 80]}

RemoteStreams == {"remote1", "remote2"}

ResolverError == [ok |-> FALSE, kind |-> "ConnectionRefused", origin |-> "handle_request"]

ResolverOutcomes ==
    {[ok |-> TRUE, stream |-> st, destination |-> d, err |-> ResolverError] :
        st \in RemoteStreams, d \in Destinations}
      \cup {[ok |-> FALSE, stream |-> "none",
             destination |-> [addr |-> V5IPv4(Ipv4Zero), port |-> 0],
             err |-> ResolverError]}

(***************************************************************************)
(* io::Result values                                                       *)
(***************************************************************************)
IoError(origin) == [ok |-> FALSE, kind |-> "Io", origin |-> origin]

\* map_nom_error: every nom::Err becomes ErrorKind::InvalidData; only the
\* message text, format!("{e:x?}"), still names the variant
MapNomError(e) == [ok |-> FALSE, kind |-> "InvalidData", origin |-> e.k]

Unsupported(msg) == [ok |-> FALSE, kind |-> "Unsupported", origin |-> msg]

OkUnit == [ok |-> TRUE, kind |-> "Ok", origin |-> "handle_stream"]

HandlerError == [ok |-> FALSE, kind |-> "Io", origin |-> "handle_stream"]

Panic(msg) == [ok |-> FALSE, kind |-> "panic", origin |-> msg]

(***************************************************************************)
(* Server: one connection unit, Server::handle_client.  An absent value    *)
(* (a local not yet bound, a result not yet returned) is <<>>, a present   *)
(* one is <<value>>.                                                       *)
(***************************************************************************)
Init ==
    /\ pc = "read_version"
    /\ buffer = <<>>
    /\ n = 0
    /\ version = <<>>
    /\ hello = <<>>
    /\ method = <<>>
    /\ req = <<>>
    /\ decoded = <<>>
    /\ resolverCalls = <<>>
    /\ resolved = <<>>
    /\ out = <<>>
    /\ reads = <<>>
    /\ handlerCalls = <<>>
    /\ result = <<>>
    /\ log = <<>>

\* the function returns r (through every `?` up to the spawned task)
Return(r) == pc' = "done" /\ result' = <<r>>

Decoded(what, r) == decoded' = Append(decoded, [what |-> what, k |-> r.k])

\* stream.read_buf(&mut buffer): appends what arrived, returns its length
ReadBuf(buf, bytes) == buf \o bytes

\* let n = stream.read_buf(&mut buffer).await?;
ReadVersion ==
    /\ pc = "read_version"
    /\ log' = Append(log, "read_version")
    /\ \/ \E bytes \in FirstReads :
            /\ buffer' = ReadBuf(buffer, bytes)
            /\ n' = Len(bytes)
            /\ reads' = Append(reads, bytes)
            /\ pc' = "sniff"
            /\ UNCHANGED result
       \/ /\ Return(IoError("read_buf"))
          /\ UNCHANGED <<buffer, n, reads>>
    /\ UNCHANGED <<version, hello, method, req, decoded, resolverCalls, resolved,
                   out, handlerCalls>>

\* Version::decode(&buffer[..n]).map_err(map_nom_error)? and the match on it
\* a sniff that answers an unknown version with a v4 rejection before returning
SniffVersionRejecting ==
    /\ pc = "sniff"
    /\ log' = Append(log, "version_decode")
    /\ LET r == VersionDecode(SubSeq(buffer, 1, n)) IN
        /\ Decoded("Version", r)
        /\ IF r.k = "Ok"
            THEN /\ version' = <<r.v>>
                 /\ pc' = IF r.v = "Socks4" THEN "v4_decode" ELSE "v5_hello"
                 /\ UNCHANGED <<result, out>>
            ELSE /\ Return(MapNomError(r))
                 /\ out' = Append(out, <<0, 91, 0, 0, 0, 0, 0, 0>>)
                 /\ UNCHANGED version
    /\ UNCHANGED <<buffer, n, hello, method, req, resolverCalls, resolved,
                   reads, handlerCalls>>

\* a sniff that sends version 4 to the v5 handshake and version 5 to the v4 one
SniffVersionSwapped ==
    /\ pc = "sniff"
    /\ log' = Append(log, "version_decode")
    /\ LET r == VersionDecode(SubSeq(buffer, 1, n)) IN
        /\ Decoded("Version", r)
        /\ IF r.k = "Ok"
            THEN /\ version' = <<r.v>>
                 /\ pc' = IF r.v = "Socks4" THEN "v5_hello" ELSE "v4_decode"
                 /\ UNCHANGED result
            ELSE /\ Return(MapNomError(r))
                 /\ UNCHANGED version
    /\ UNCHANGED <<buffer, n, hello, method, req, resolverCalls, resolved, out,
                   reads, handlerCalls>>

SniffVersion ==
    /\ pc = "sniff"
    /\ log' = Append(log, "version_decode")
    /\ LET r == VersionDecode(SubSeq(buffer, 1, n)) IN
        /\ Decoded("Version", r)
        /\ IF r.k = "Ok"
            THEN /\ version' = <<r.v>>
                 /\ pc' = IF r.v = "Socks4" THEN "v4_decode" ELSE "v5_hello"
                 /\ UNCHANGED result
            ELSE /\ Return(MapNomError(r))
                 /\ UNCHANGED version
    /\ UNCHANGED <<buffer, n, hello, method, req, resolverCalls, resolved, out,
                   reads, handlerCalls>>

\* handle_client_v4: Request::decode(&buffer).map_err(map_nom_error)?
V4DecodeRequest ==
    /\ pc = "v4_decode"
    /\ log' = Append(log, "request_decode")
    /\ LET r == V4RequestDecode(buffer) IN
        /\ Decoded("Request", r)
        /\ IF r.k = "Ok"
            THEN req' = <<r.v>> /\ pc' = "v4_resolve" /\ UNCHANGED result
            ELSE Return(MapNomError(r)) /\ UNCHANGED req
    /\ UNCHANGED <<buffer, n, version, hello, method, resolverCalls, resolved, out,
                   reads, handlerCalls>>

V4ConnectionRequest(r) == ConnectionRequestFrom(DestinationFromV4(r.addr, r.port))

\* a resolver call that is made again after it failed
V4ResolveRetrying ==
    /\ pc = "v4_resolve"
    /\ log' = Append(log, "resolve")
    /\ resolverCalls' = Append(resolverCalls, V4ConnectionRequest(req[1]))
    /\ \E o \in ResolverOutcomes :
        /\ resolved' = <<o>>
        /\ pc' = IF o.ok THEN "v4_respond" ELSE "v4_resolve"
    /\ UNCHANGED <<buffer, n, version, hello, method, req, decoded, out, reads,
                   handlerCalls, result>>

\* handle_request((req.addr.clone(), req.port).into()).await
V4Resolve ==
    /\ pc = "v4_resolve"
    /\ log' = Append(log, "resolve")
    /\ resolverCalls' = Append(resolverCalls, V4ConnectionRequest(req[1]))
    /\ \E o \in ResolverOutcomes : resolved' = <<o>>
    /\ pc' = "v4_respond"
    /\ UNCHANGED <<buffer, n, version, hello, method, req, decoded, out, reads,
                   handlerCalls, result>>

\* the Response of the Ok arm
\* a v4 success Response that reports the requested address and port
V4SuccessResponseEchoingRequest(destination) ==
    [status |-> "Success",
     addr   |-> IF req[1].addr.v4tag = "IPv4" THEN req[1].addr.data ELSE Ipv4Zero,
     port   |-> req[1].port]

V4SuccessResponse(destination) ==
    [status |-> "Success",
     addr   |-> IF destination.addr.tag = "IPv4" THEN destination.addr.data ELSE Ipv4Zero,
     port   |-> destination.port]

\* the Response of the Err arm
V4FailureResponse(r) ==
    [status |-> "Rejected",
     addr   |-> IF r.addr.v4tag = "IPv4" THEN r.addr.data ELSE Ipv4Zero,
     port   |-> r.port]

\* both arms of the match: build, encode, write_all, return
V4Respond ==
    /\ pc = "v4_respond"
    /\ log' = Append(log, "respond")
    /\ LET response == IF resolved[1].ok THEN V4SuccessResponse(resolved[1].destination)
                       ELSE V4FailureResponse(req[1])
           bytes == V4ResponseEncodeInto(response, <<>>) IN
        /\ buffer' = bytes
        /\ \/ /\ out' = Append(out, bytes)
              /\ IF resolved[1].ok
                    THEN pc' = "handoff" /\ UNCHANGED result
                    ELSE Return(resolved[1].err)
           \/ /\ Return(IoError("write_all"))
              /\ UNCHANGED out
    /\ UNCHANGED <<n, version, hello, method, req, decoded, resolverCalls, resolved,
                   reads, handlerCalls>>

\* a choice that looks at the first offered method only
SelectMethodFirstOnly(h) ==
    IF Len(h.methods) > 0 /\ h.methods[1] = MethodNone
        THEN MethodNone ELSE MethodNotAcceptable

\* the method put into the HelloResponse
SelectMethod(h) ==
    IF \E i \in DOMAIN h.methods : h.methods[i] = MethodNone
        THEN MethodNone ELSE MethodNotAcceptable

\* handle_client_v5: Hello::decode(&buffer), the choice, encode_into
V5DecodeHello ==
    /\ pc = "v5_hello"
    /\ log' = Append(log, "hello_decode")
    /\ LET r == HelloDecode(buffer) IN
        /\ Decoded("Hello", r)
        /\ IF r.k = "Ok"
            THEN /\ hello' = <<r.v>>
                 /\ method' = <<SelectMethod(r.v)>>
                 /\ buffer' = HelloResponseEncodeInto([method |-> SelectMethod(r.v)], <<>>)
                 /\ pc' = "v5_write_hello"
                 /\ UNCHANGED result
            ELSE /\ Return(MapNomError(r))
                 /\ UNCHANGED <<hello, method, buffer>>
    /\ UNCHANGED <<n, version, req, resolverCalls, resolved, out, reads, handlerCalls>>

\* stream.write_all(&buffer[..]).await? and the NotAcceptable return
V5WriteHelloResponse ==
    /\ pc = "v5_write_hello"
    /\ log' = Append(log, "hello_response_write")
    /\ \/ /\ out' = Append(out, buffer)
          /\ IF method[1] = MethodNotAcceptable
                THEN Return(Unsupported("Client requested only unsupported authentication methods"))
                ELSE pc' = "v5_read_request" /\ UNCHANGED result
       \/ /\ Return(IoError("write_all"))
          /\ UNCHANGED out
    /\ UNCHANGED <<buffer, n, version, hello, method, req, decoded, resolverCalls,
                   resolved, reads, handlerCalls>>

\* buffer.clear(); let n = stream.read_buf(&mut buffer).await?;
V5ReadRequest ==
    /\ pc = "v5_read_request"
    /\ log' = Append(log, "request_read")
    /\ \/ \E bytes \in SecondReads :
            /\ buffer' = ReadBuf(<<>>, bytes)
            /\ n' = Len(bytes)
            /\ reads' = Append(reads, bytes)
            /\ pc' = "v5_decode"
            /\ UNCHANGED result
       \/ /\ Return(IoError("read_buf"))
          /\ buffer' = <<>>
          /\ UNCHANGED <<n, reads>>
    /\ UNCHANGED <<version, hello, method, req, decoded, resolverCalls, resolved,
                   out, handlerCalls>>

\* Request::decode(&buffer[..n]).map_err(map_nom_error)?
V5DecodeRequest ==
    /\ pc = "v5_decode"
    /\ log' = Append(log, "request_decode")
    /\ LET r == V5RequestDecode(SubSeq(buffer, 1, n)) IN
        /\ Decoded("Request", r)
        /\ IF r.k = "Ok"
            THEN req' = <<r.v>> /\ pc' = "v5_resolve" /\ UNCHANGED result
            ELSE Return(MapNomError(r)) /\ UNCHANGED req
    /\ UNCHANGED <<buffer, n, version, hello, method, resolverCalls, resolved, out,
                   reads, handlerCalls>>

\* a conversion that serves Connect only and asks for nothing otherwise
V5ConnectionRequestConnectOnly(r) ==
    IF r.command = "Connect"
        THEN ConnectionRequestFrom(DestinationFromV5(r.addr, r.port))
        ELSE ConnectionRequestFrom(DestinationFromV5(V5IPv4(Ipv4Zero), 0))

V5ConnectionRequest(r) == ConnectionRequestFrom(DestinationFromV5(r.addr, r.port))

\* handle_request((req.addr.clone(), req.port).into()).await
V5Resolve ==
    /\ pc = "v5_resolve"
    /\ log' = Append(log, "resolve")
    /\ resolverCalls' = Append(resolverCalls, V5ConnectionRequest(req[1]))
    /\ \E o \in ResolverOutcomes : resolved' = <<o>>
    /\ pc' = "v5_respond"
    /\ UNCHANGED <<buffer, n, version, hello, method, req, decoded, out, reads,
                   handlerCalls, result>>

\* a success Response that echoes the Request instead of the Destination reached
V5SuccessResponseEchoingRequest(destination) ==
    [status |-> V5Success, addr |-> req[1].addr, port |-> req[1].port]

\* the Response of the Ok arm
V5SuccessResponse(destination) ==
    [status |-> V5Success, addr |-> destination.addr, port |-> destination.port]

\* a failure Response with a zeroed bound address
V5FailureResponseZeroed(r) ==
    [status |-> V5GeneralFailure, addr |-> V5IPv4(Ipv4Zero), port |-> 0]

\* the Response of the Err arm
V5FailureResponse(r) ==
    [status |-> V5GeneralFailure, addr |-> r.addr, port |-> r.port]

\* a Respond step that drops the result of write_all
V5RespondIgnoringWriteError ==
    /\ pc = "v5_respond"
    /\ log' = Append(log, "respond")
    /\ LET response == IF resolved[1].ok THEN V5SuccessResponse(resolved[1].destination)
                       ELSE V5FailureResponse(req[1])
           bytes == V5ResponseEncodeInto(response, <<>>) IN
        IF V5AddressTypeEncodePanics(response.addr)
            THEN /\ pc' = "panicked"
                 /\ result' = <<Panic("Domain name too long")>>
                 /\ buffer' = <<5, V5StatusByte(response.status), 0, 3>>
                 /\ UNCHANGED out
            ELSE /\ buffer' = bytes
                 /\ \/ out' = Append(out, bytes)
                    \/ UNCHANGED out
                 /\ IF resolved[1].ok
                        THEN pc' = "handoff" /\ UNCHANGED result
                        ELSE Return(resolved[1].err)
    /\ UNCHANGED <<n, version, hello, method, req, decoded, resolverCalls, resolved,
                   reads, handlerCalls>>

\* both arms of the match: build, encode, write_all, return
V5Respond ==
    /\ pc = "v5_respond"
    /\ log' = Append(log, "respond")
    /\ LET response == IF resolved[1].ok THEN V5SuccessResponse(resolved[1].destination)
                       ELSE V5FailureResponse(req[1])
           bytes == V5ResponseEncodeInto(response, <<>>) IN
        IF V5AddressTypeEncodePanics(response.addr)
            THEN /\ pc' = "panicked"
                 /\ result' = <<Panic("Domain name too long")>>
                 /\ buffer' = <<5, V5StatusByte(response.status), 0, 3>>
                 /\ UNCHANGED out
            ELSE /\ buffer' = bytes
                 /\ \/ /\ out' = Append(out, bytes)
                       /\ IF resolved[1].ok
                            THEN pc' = "handoff" /\ UNCHANGED result
                            ELSE Return(resolved[1].err)
                    \/ /\ Return(IoError("write_all"))
                       /\ UNCHANGED out
    /\ UNCHANGED <<n, version, hello, method, req, decoded, resolverCalls, resolved,
                   reads, handlerCalls>>

\* handle_stream(stream, remote_stream): the two streams change hands
Handoff ==
    /\ pc = "handoff"
    /\ log' = Append(log, "handoff")
    /\ handlerCalls' = Append(handlerCalls,
            [client |-> "client", remote |-> resolved[1].stream])
    /\ pc' = "relay"
    /\ UNCHANGED <<buffer, n, version, hello, method, req, decoded, resolverCalls,
                   resolved, out, reads, result>>

\* .await on the handler's future: its result is the unit's result
RelayEnds ==
    /\ pc = "relay"
    /\ log' = Append(log, "relay_end")
    /\ \E r \in {OkUnit, HandlerError} : Return(r)
    /\ UNCHANGED <<buffer, n, version, hello, method, req, decoded, resolverCalls,
                   resolved, out, reads, handlerCalls>>

Next ==
    \/ ReadVersion
    \/ SniffVersion
    \/ V4DecodeRequest
    \/ V4Resolve
    \/ V4Respond
    \/ V5DecodeHello
    \/ V5WriteHelloResponse
    \/ V5ReadRequest
    \/ V5DecodeRequest
    \/ V5Resolve
    \/ V5Respond
    \/ Handoff
    \/ RelayEnds

Spec == Init /\ [][Next]_vars

(***************************************************************************)
(* Terminal states and byte-level readings of the traffic                  *)
(***************************************************************************)
Established == handlerCalls # <<>>

Aborted == pc = "done" /\ handlerCalls = <<>>

IsV5 == version = <<"Socks5">>

IsV4 == version = <<"Socks4">>

ResolverFailed == resolved # <<>> /\ ~resolved[1].ok

ResolverSucceeded == resolved # <<>> /\ resolved[1].ok

\* the method bytes a Hello on the wire offers: 05, N, then N bytes
OfferedBytes(first) == {first[i] : i \in 3..(2 + first[2])}

\* the wire form of a tagged address, as the format table gives it
TaggedAddress(a) ==
    IF a.tag = "IPv4" THEN <<1>> \o a.data
    ELSE IF a.tag = "IPv6" THEN <<4>> \o a.data
    ELSE <<3, Len(a.data)>> \o a.data

\* a Destination every field of which fits the wire format
Representable(d) == d.addr.tag = "DomainName" => Len(d.addr.data) <= NameLimit

\* the tagged address and port inside a v5 Request on the wire
RequestedBytes(second) ==
    LET alen == IF second[4] = 1 THEN 4 ELSE IF second[4] = 4 THEN 16 ELSE 1 + second[5] IN
    SubSeq(second, 4, 4 + alen + 2)

Position(step) == CHOOSE i \in DOMAIN log : log[i] = step

Took(step) == \E i \in DOMAIN log : log[i] = step

LastDecode == decoded[Len(decoded)]

(***************************************************************************)
(* C1: in the v5 handshake the HelloResponse carries None exactly when the *)
(* Hello read from the client offers method byte 0 and NotAcceptable       *)
(* otherwise, the empty offer included; once NotAcceptable is chosen no    *)
(* Request is read, the resolver and the stream handler are never invoked, *)
(* and when the HelloResponse has been written the unit ends with an       *)
(* Unsupported error.                                                      *)
(***************************************************************************)
C1_MethodNegotiation ==
    /\ (IsV5 /\ Len(out) >= 1) =>
            out[1] = IF 0 \in OfferedBytes(reads[1]) THEN <<5, 0>> ELSE <<5, 255>>
    /\ (IsV5 /\ hello # <<>> /\ ~(0 \in OfferedBytes(reads[1]))) =>
            /\ pc \in {"v5_write_hello", "done"}
            /\ Len(reads) = 1
            /\ req = <<>>
            /\ ~Took("request_read")
            /\ resolverCalls = <<>>
            /\ handlerCalls = <<>>
            /\ (pc = "done" /\ out # <<>>) =>
                    out = <<(<<5, 255>>)>> /\ result[1].kind = "Unsupported"
            /\ (pc = "done" /\ out = <<>>) => result[1] = IoError("write_all")

C1_Witness ==
    /\ pc = "done"
    /\ reads = <<(<<5, 1, 2>>)>>
    /\ out = <<(<<5, 255>>)>>
    /\ result[1].kind = "Unsupported"

(***************************************************************************)
(* C2: the resolver is invoked at most once per handshake and only after   *)
(* the Request was decoded; once a Request is decoded the resolver is      *)
(* invoked exactly once whatever it answers; it is never invoked when the  *)
(* version sniff, the Hello decode, the method negotiation or the Request  *)
(* decode fails.                                                           *)
(***************************************************************************)
C2_ResolverOnce ==
    /\ Len(resolverCalls) <= 1
    /\ resolverCalls # <<>> =>
            /\ req # <<>>
            /\ Took("request_decode")
            /\ Position("request_decode") < Position("resolve")
            /\ \E i \in DOMAIN decoded : decoded[i] = [what |-> "Request", k |-> "Ok"]
    /\ (req # <<>> /\ pc \notin {"v4_resolve", "v5_resolve"}) => Len(resolverCalls) = 1
    /\ (\E i \in DOMAIN decoded : decoded[i].k # "Ok") => resolverCalls = <<>>
    /\ method = <<MethodNotAcceptable>> => resolverCalls = <<>>
    /\ Cardinality({i \in DOMAIN log : log[i] = "resolve"}) = Len(resolverCalls)

C2_Witness ==
    /\ pc = "done"
    /\ ResolverFailed
    /\ Len(resolverCalls) = 1
    /\ IsV4

(***************************************************************************)
(* C3 as stated: when the resolver fails, the failure Response that is     *)
(* written carries the originally requested address and port, with status  *)
(* GeneralFailure in v5 (05 01 00, the requested tagged address, the port) *)
(* and Rejected in v4.                                                     *)
(***************************************************************************)
FailureResponseWritten == ResolverFailed /\ Len(out) = (IF IsV5 THEN 2 ELSE 1)

C3_EchoesRequestedAddress ==
    FailureResponseWritten =>
        IF IsV5
            THEN out[2] = <<5, 1, 0>> \o RequestedBytes(reads[2])
            ELSE LET d == V4ResponseDecode(out[1]) IN
                 /\ d.k = "Ok"
                 /\ d.v.status = "Rejected"
                 /\ d.v.port = resolverCalls[1].destination.port
                 /\ V5IPv4(d.v.addr) = resolverCalls[1].destination.addr

(***************************************************************************)
(* C3 as amended: when the resolver fails the server writes at most one    *)
(* Response, and exactly one unless that write fails: in v5 the bytes      *)
(* 05 01 00, the requested tagged address and the port; in v4 the bytes    *)
(* 00 5B, the requested port and the requested IPv4 address, or 0.0.0.0    *)
(* when the Request named a domain.  The unit returns only after the       *)
(* write, reports the resolver's error when the write succeeded and the    *)
(* write's error otherwise, and never invokes the stream handler.          *)
(***************************************************************************)
C3_FailureResponse ==
    ResolverFailed =>
        /\ handlerCalls = <<>>
        /\ pc \in {"v4_respond", "v5_respond", "done"}
        /\ Len(out) <= (IF IsV5 THEN 2 ELSE 1)
        /\ FailureResponseWritten =>
                IF IsV5
                    THEN out[2] = <<5, 1, 0>> \o RequestedBytes(reads[2])
                    ELSE out[1] = <<0, 91>> \o SubSeq(reads[1], 3, 4)
                            \o (IF req[1].addr.v4tag = "IPv4"
                                    THEN SubSeq(reads[1], 5, 8) ELSE <<0, 0, 0, 0>>)
        /\ pc = "done" =>
                \/ FailureResponseWritten /\ result[1] = resolved[1].err
                \/ ~FailureResponseWritten /\ result[1] = IoError("write_all")

C3_Witness ==
    /\ pc = "done"
    /\ IsV4
    /\ ResolverFailed
    /\ req[1].addr.v4tag = "DomainName"
    /\ out = <<(<<0, 91, 0, 80, 0, 0, 0, 0>>)>>
    /\ result[1] = ResolverError

C5_HandoffState ==
    /\ Len(handlerCalls) <= 1
    /\ handlerCalls # <<>> =>
            /\ ResolverSucceeded
            /\ Took("respond")
            /\ Position("resolve") < Position("respond")
            /\ Position("respond") < Position("handoff")
            /\ Len(out) = (IF IsV5 THEN 2 ELSE 1)
            /\ SubSeq(out[Len(out)], 1, 2) = (IF IsV5 THEN <<5, 0>> ELSE <<0, 90>>)
            /\ handlerCalls[1] = [client |-> "client", remote |-> resolved[1].stream]
    /\ (pc = "done" /\ handlerCalls # <<>>) => result[1].origin = "handle_stream"
    /\ (pc = "done" /\ result[1].origin = "handle_stream") => handlerCalls # <<>>

C5_Handoff ==
    /\ []C5_HandoffState
    /\ [][handlerCalls # <<>> => (out' = out /\ reads' = reads /\ buffer' = buffer)]_vars

C5_Witness ==
    /\ pc = "done"
    /\ handlerCalls = <<[client |-> "client", remote |-> "remote2"]>>
    /\ result = <<HandlerError>>

(***************************************************************************)
(* C9 as stated: a decode that reports Incomplete does not abort the       *)
(* connection; only structurally invalid input does.                       *)
(***************************************************************************)
C9_IncompleteIsNotFatal ==
    \A i \in DOMAIN decoded : decoded[i].k = "Incomplete" => ~Aborted

(***************************************************************************)
(* Client: Client::connect, one action per version.  The peer's replies    *)
(* and the outcome of each write_all and read_buf are the inputs: a reply  *)
(* is <<bytes>>, or <<>> when read_buf fails.                              *)
(***************************************************************************)
\* what into_socks_addr yields for the addresses a caller connects to: a
\* SocketAddr of either family, or a (name, port) pair whose name may be ""
Targets ==
    {[addr |-> V5IPv4(ExampleIp), port |-> 80], [addr |-> V5IPv6(Ip6), port |-> 443]}
      \cup {[addr |-> V5DomainName(nm), port |-> p] : nm \in Names \cup {<<>>}, p \in Ports}

\* replies of a peer to the Hello: well-formed, cut short, of another version
HelloReplies ==
    {<<5, 0>>, <<5, 2>>, <<5, 255>>, <<5, 0, 0>>, <<5>>, <<>>, <<4, 0>>}

V5Replies ==
    UNION {Prefixes(<<5, st, 0, 1>> \o ExampleIp \o U16Bytes(80)) : st \in {0, 1, 9}}
      \cup {<<5, 0, 0, 3, 1, 97, 1, 187>>}

V4Replies ==
    UNION {Prefixes(<<0, st>> \o U16Bytes(80) \o ExampleIp) : st \in {90, 91, 92, 93, 94}}
      \cup {<<4, 90>> \o U16Bytes(80) \o ExampleIp,
            <<0, 90>> \o U16Bytes(443) \o Ipv4Zero \o <<72>>}

Replies(S) == {<<>>} \cup {<<b>> : b \in S}

OkStream == [ok |-> TRUE, kind |-> "Ok", origin |-> "self.stream"]

\* io::Error::new(io::ErrorKind::Other, format!("{s:?}", s = response.status))
StatusError(name) == [ok |-> FALSE, kind |-> "Other", origin |-> name]

ClientInit ==
    /\ pc = "connect"
    /\ version \in {<<"Socks4">>, <<"Socks5">>}
    /\ buffer = <<>>
    /\ n = 0
    /\ hello = <<>>
    /\ method = <<>>
    /\ req = <<>>
    /\ decoded = <<>>
    /\ resolverCalls = <<>>
    /\ resolved = <<>>
    /\ out = <<>>
    /\ reads = <<>>
    /\ handlerCalls = <<>>
    /\ result = <<>>
    /\ log = <<>>

\* the locals and the traffic of a connect that has written, read and decoded nothing
ClientIdle ==
    [pc |-> "done", buffer |-> <<>>, n |-> 0, hello |-> <<>>, method |-> <<>>,
     req |-> <<>>, decoded |-> <<>>, out |-> <<>>, reads |-> <<>>, log |-> <<>>,
     result |-> <<>>]

\* a request with a user id the caller never gave
ClientV4RequestWithUser(addr, port) ==
    [command |-> "Connect", addr |-> addr, port |-> port, secret |-> SomeStr(<<117>>)]

\* the Request connect_v4 builds
ClientV4Request(addr, port) ==
    [command |-> "Connect", addr |-> addr, port |-> port, secret |-> NoneStr]

\* connect_v4, run against one outcome of its write and one of its read
ClientV4Run(t, w, rd) ==
    LET conv == V4AddressTryFrom(t.addr)
        request == ClientV4Request(conv.v, t.port)
        b1 == V4RequestEncodeInto(request, <<>>)
        s1 == [ClientIdle EXCEPT !.req = <<request>>, !.buffer = b1,
                                 !.log = <<"request_write">>]
        s2 == [s1 EXCEPT !.out = <<b1>>, !.buffer = <<>>,
                         !.log = Append(@, "response_read")] IN
    IF ~conv.ok
        THEN [ClientIdle EXCEPT !.result = <<Unsupported("Socks v4 does not support IPv6")>>]
    ELSE IF ~w THEN [s1 EXCEPT !.result = <<IoError("write_all")>>]
    ELSE IF rd = <<>> THEN [s2 EXCEPT !.result = <<IoError("read_buf")>>]
    ELSE LET b2 == ReadBuf(<<>>, rd[1])
             d  == V4ResponseDecode(SubSeq(b2, 1, Len(rd[1])))
             s3 == [s2 EXCEPT !.buffer = b2, !.n = Len(rd[1]), !.reads = <<rd[1]>>,
                              !.decoded = <<[what |-> "Response", k |-> d.k]>>,
                              !.log = Append(@, "response_decode")] IN
         IF d.k # "Ok" THEN [s3 EXCEPT !.result = <<MapNomError(d)>>]
         ELSE IF d.v.status = "Success" THEN [s3 EXCEPT !.result = <<OkStream>>]
         ELSE [s3 EXCEPT !.result = <<StatusError(d.v.status)>>]

\* the Request connect_v5 builds
ClientV5Request(addr, port) == [command |-> "Connect", addr |-> addr, port |-> port]

\* connect_v5 from the Request on, entered once the HelloResponse chose None:
\* buffer.clear() precedes the encode, no clear precedes the read_buf
ClientV5RequestPhase(s, t, w2, rd2) ==
    LET request == ClientV5Request(t.addr, t.port)
        b3 == V5RequestEncodeInto(request, <<>>)
        s4 == [s EXCEPT !.req = <<request>>, !.buffer = b3,
                        !.log = Append(@, "request_write")]
        s5 == [s4 EXCEPT !.out = Append(@, b3), !.log = Append(@, "response_read")] IN
    IF V5AddressTypeEncodePanics(request.addr)
        THEN [s EXCEPT !.pc = "panicked", !.req = <<request>>,
                       !.result = <<Panic("Domain name too long")>>]
    ELSE IF ~w2 THEN [s4 EXCEPT !.result = <<IoError("write_all")>>]
    ELSE IF rd2 = <<>> THEN [s5 EXCEPT !.result = <<IoError("read_buf")>>]
    ELSE LET b4 == ReadBuf(b3, rd2[1])
             d  == V5ResponseDecode(SubSeq(b4, 1, Len(rd2[1])))
             s6 == [s5 EXCEPT !.buffer = b4, !.n = Len(rd2[1]),
                              !.reads = Append(@, rd2[1]),
                              !.decoded = Append(@, [what |-> "Response", k |-> d.k]),
                              !.log = Append(@, "response_decode")] IN
         IF d.k # "Ok" THEN [s6 EXCEPT !.result = <<MapNomError(d)>>]
         ELSE IF d.v.status = V5Success THEN [s6 EXCEPT !.result = <<OkStream>>]
         ELSE [s6 EXCEPT !.result = <<StatusError(d.v.status.tag)>>]

\* connect_v5, run against the outcomes of its writes and reads: the Hello is
\* encoded into `buffer`, read_buf appends the reply behind it, and the decode
\* is given &buffer[..n]
ClientV5Run(t, w1, rd1, w2, rd2) ==
    LET h  == [methods |-> <<MethodNone>>]
        b1 == HelloEncodeInto(h, <<>>)
        s1 == [ClientIdle EXCEPT !.hello = <<h>>, !.buffer = b1,
                                 !.log = <<"hello_write">>]
        s2 == [s1 EXCEPT !.out = <<b1>>, !.log = Append(@, "hello_response_read")] IN
    IF ~w1 THEN [s1 EXCEPT !.result = <<IoError("write_all")>>]
    ELSE IF rd1 = <<>> THEN [s2 EXCEPT !.result = <<IoError("read_buf")>>]
    ELSE LET b2 == ReadBuf(b1, rd1[1])
             d  == HelloResponseDecode(SubSeq(b2, 1, Len(rd1[1])))
             s3 == [s2 EXCEPT !.buffer = b2, !.n = Len(rd1[1]), !.reads = <<rd1[1]>>,
                              !.decoded = <<[what |-> "HelloResponse", k |-> d.k]>>,
                              !.log = Append(@, "hello_response_decode")] IN
         IF d.k # "Ok" THEN [s3 EXCEPT !.result = <<MapNomError(d)>>]
         ELSE IF d.v.method # MethodNone
            THEN [s3 EXCEPT !.method = <<d.v.method>>,
                            !.result = <<Unsupported("Does not support any authentication method")>>]
         ELSE ClientV5RequestPhase([s3 EXCEPT !.method = <<d.v.method>>], t, w2, rd2)

\* the connect() call returns (or panics) with the locals and traffic of run s
ClientFinish(s) ==
    /\ pc' = s.pc
    /\ buffer' = s.buffer
    /\ n' = s.n
    /\ hello' = s.hello
    /\ method' = s.method
    /\ req' = s.req
    /\ decoded' = s.decoded
    /\ out' = s.out
    /\ reads' = s.reads
    /\ log' = s.log
    /\ result' = s.result
    /\ UNCHANGED <<version, resolverCalls, resolved, handlerCalls>>

ClientConnectV4 ==
    /\ pc = "connect"
    /\ version = <<"Socks4">>
    /\ \E t \in Targets, w \in BOOLEAN, rd \in Replies(V4Replies) :
            ClientFinish(ClientV4Run(t, w, rd))

ClientConnectV5 ==
    /\ pc = "connect"
    /\ version = <<"Socks5">>
    /\ \E t \in Targets, w1 \in BOOLEAN, rd1 \in Replies(HelloReplies),
          w2 \in BOOLEAN, rd2 \in Replies(V5Replies) :
            ClientFinish(ClientV5Run(t, w1, rd1, w2, rd2))

ClientNext == ClientConnectV4 \/ ClientConnectV5

ClientSpec == ClientInit /\ [][ClientNext]_vars

(***************************************************************************)
(* Client properties.                                                      *)
(***************************************************************************)
IsClientV5 == version = <<"Socks5">>

IsClientV4 == version = <<"Socks4">>

Returned == pc = "done" /\ result # <<>>

\* the bytes are a HelloResponse selecting None
SelectsNone(b) ==
    LET d == HelloResponseDecode(b) IN d.k = "Ok" /\ d.v.method = MethodNone

\* the bytes are a HelloResponse selecting a method other than None
SelectsOther(b) ==
    LET d == HelloResponseDecode(b) IN d.k = "Ok" /\ d.v.method # MethodNone

\* the bytes are a v5 Response with status Success
RepliesSuccess(b) ==
    LET d == V5ResponseDecode(b) IN d.k = "Ok" /\ d.v.status = V5Success

\* C6: a v5 connect whose writes and reads all complete returns the stream
\* if and only if the peer answered the Hello with a HelloResponse selecting
\* None and the Request with a Response of status Success (so it does against
\* a peer answering 05 00 and then 05 00 00 01 5D B8 D8 22 00 50).
C6_ConnectV5Succeeds ==
    [][IsClientV5 /\ pc = "connect" =>
         \A t \in Targets, b1 \in HelloReplies, b2 \in V5Replies :
            ClientFinish(ClientV5Run(t, TRUE, <<b1>>, TRUE, <<b2>>))
                => (result'[1].ok <=> (SelectsNone(b1) /\ RepliesSuccess(b2)))]_vars

\* C7: a v5 connect writes the Hello 05 01 00 first, and it aborts with an
\* Unsupported error having written no Request if and only if the peer's
\* HelloResponse selects a method other than None.
C7_AbortsOnlyOnOtherMethod ==
    [][IsClientV5 /\ pc = "connect" =>
         \A t \in Targets, b1 \in HelloReplies, b2 \in V5Replies :
            ClientFinish(ClientV5Run(t, TRUE, <<b1>>, TRUE, <<b2>>))
                => /\ out'[1] = <<5, 1, 0>>
                   /\ (result'[1].kind = "Unsupported" /\ Len(out') = 1)
                         <=> SelectsOther(b1)]_vars

\* C8: a v4 connect writes at most one message, and that message is a v4
\* Request with command Connect and an empty user-id field, never a Hello;
\* once the reply is read, connect returns the stream if and only if the
\* reply decodes as a v4 Response (null byte, status, port, address) whose
\* status byte is 0x5A, and returns an error for every other reply.
C8_ConnectV4 ==
    (IsClientV4 /\ Returned) =>
        /\ Len(out) <= 1
        /\ out # <<>> =>
             LET d == V4RequestDecode(out[1]) IN
             /\ SubSeq(out[1], 1, 2) = <<4, 1>>
             /\ out[1][9] = 0
             /\ SubSeq(out[1], 3, 4) = U16Bytes(req[1].port)
             /\ req[1].addr.data # <<>> =>
                  /\ d.k = "Ok" /\ d.v.command = "Connect" /\ d.v.secret = NoneStr
                  /\ d.v.addr = req[1].addr /\ d.v.port = req[1].port
        /\ result[1].ok <=>
             /\ reads # <<>>
             /\ Len(reads[1]) >= 8
             /\ reads[1][1] = 0
             /\ reads[1][2] = 90
        /\ result[1].ok => Len(out) = 1

C8_Witness ==
    /\ IsClientV4 /\ Returned
    /\ result[1].ok
    /\ req[1].addr.v4tag = "DomainName"
    /\ reads[1][2] = 90

(***************************************************************************)
(* Codec: a message of one of the six types is encoded, the encoding is    *)
(* cut to its first n bytes, and the prefix is decoded.                    *)
(***************************************************************************)
\* the UTF-8 encoding of a one-character, non-ASCII string
NonAscii == <<195, 169>>

V5Addresses ==
    {V5IPv4(ExampleIp), V5IPv6(Ip6)} \cup {V5DomainName(nm) : nm \in Names \cup {NonAscii}}

V4Addresses == {V4IPv4(ExampleIp)} \cup {V4DomainName(nm) : nm \in Names}

\* user ids a v4 Request may carry in `secret`
UserIds == {NoneStr, SomeStr(<<117>>), SomeStr(NonAscii), SomeStr(<<>>)}

V5Messages ==
    {[type |-> "v5::Hello", msg |-> [methods |-> ms]] : ms \in MethodLists}
      \cup {[type |-> "v5::HelloResponse", msg |-> [method |-> AuthenticationMethodFrom(b)]] :
                b \in MethodBytes}
      \cup {[type |-> "v5::Request", msg |-> [command |-> c, addr |-> a, port |-> 80]] :
                c \in {"Connect", "Bind", "UdpAssociate"}, a \in V5Addresses}
      \cup {[type |-> "v5::Response", msg |-> [status |-> V5StatusFrom(b), addr |-> a, port |-> 80]] :
                b \in {0, 1, 9}, a \in V5Addresses}

V4Requests ==
    {[type |-> "v4::Request", msg |-> [command |-> c, addr |-> a, port |-> 80, secret |-> u]] :
        c \in {"Connect", "Bind"}, a \in V4Addresses, u \in UserIds}

V4Responses ==
    {[type |-> "v4::Response", msg |-> [status |-> st, addr |-> ExampleIp, port |-> 80]] :
        st \in {"Success", "Rejected", "InetdNotAccessible", "InetdNotIdentified"}}

\* what the Vec<u8> handed to encode_into may already hold
PriorContents == {<<>>, <<255, 5>>}

\* Wire::encode_into of the message's type
WireEncode(m, buf) ==
    IF m.type = "v5::Hello" THEN HelloEncodeInto(m.msg, buf)
    ELSE IF m.type = "v5::HelloResponse" THEN HelloResponseEncodeInto(m.msg, buf)
    ELSE IF m.type = "v5::Request" THEN V5RequestEncodeInto(m.msg, buf)
    ELSE IF m.type = "v5::Response" THEN V5ResponseEncodeInto(m.msg, buf)
    ELSE IF m.type = "v4::Request" THEN V4RequestEncodeInto(m.msg, buf)
    ELSE V4ResponseEncodeInto(m.msg, buf)

\* Wire::decode of the given type
WireDecode(type, i) ==
    IF type = "v5::Hello" THEN HelloDecode(i)
    ELSE IF type = "v5::HelloResponse" THEN HelloResponseDecode(i)
    ELSE IF type = "v5::Request" THEN V5RequestDecode(i)
    ELSE IF type = "v5::Response" THEN V5ResponseDecode(i)
    ELSE IF type = "v4::Request" THEN V4RequestDecode(i)
    ELSE V4ResponseDecode(i)

CodecInit ==
    /\ pc = "message"
    /\ \/ req \in {<<m>> : m \in V5Messages}
       \/ req \in {<<m>> : m \in V4Requests}
       \/ req \in {<<m>> : m \in V4Responses}
    /\ buffer \in PriorContents
    /\ n = 0
    /\ version = <<>>
    /\ hello = <<>>
    /\ method = <<>>
    /\ decoded = <<>>
    /\ resolverCalls = <<>>
    /\ resolved = <<>>
    /\ out = <<>>
    /\ reads = <<>>
    /\ handlerCalls = <<>>
    /\ result = <<>>
    /\ log = <<>>

CodecEncode ==
    /\ pc = "message"
    /\ buffer' = WireEncode(req[1], buffer)
    /\ out' = <<Drop(buffer', Len(buffer))>>
    /\ pc' = "encoded"
    /\ UNCHANGED <<n, version, hello, method, req, decoded, resolverCalls, resolved,
                   reads, handlerCalls, result, log>>

\* of the bytes encode_into appended, the peer has received only the first m
CodecTruncate ==
    /\ pc = "encoded"
    /\ \E m \in 0..Len(out[1]) : n' = m
    /\ pc' = "received"
    /\ UNCHANGED <<buffer, version, hello, method, req, decoded, resolverCalls,
                   resolved, out, reads, handlerCalls, result, log>>

CodecDecode ==
    /\ pc = "received"
    /\ Decoded(req[1].type, WireDecode(req[1].type, SubSeq(out[1], 1, n)))
    /\ result' = <<WireDecode(req[1].type, SubSeq(out[1], 1, n))>>
    /\ pc' = "decoded"
    /\ UNCHANGED <<buffer, n, version, hello, method, req, resolverCalls, resolved,
                   out, reads, handlerCalls, log>>

CodecNext == CodecEncode \/ CodecTruncate \/ CodecDecode

CodecSpec == CodecInit /\ [][CodecNext]_vars

\* C10: for each of the six message types, decoding a strict prefix of the
\* encoding of a valid message yields Incomplete, never Error or Failure.
C10_TruncatedIsIncomplete ==
    (pc = "decoded" /\ n < Len(out[1])) => decoded[1].k = "Incomplete"

\* C11: for each of the six message types and every valid message m, decoding
\* the whole of encode_into(m) returns m and an empty remainder.
C11_RoundTrip ==
    (pc = "decoded" /\ n = Len(out[1])) =>
        /\ result[1].k = "Ok"
        /\ result[1].rest = <<>>
        /\ result[1].v = req[1].msg

\* the bytes of each method of a list, in order
MethodBytesOf(ms) == [i \in 1..Len(ms) |-> AuthenticationMethodAsU8(ms[i])]

\* the user id of a v4 Request as it appears before its NUL
UserIdBytes(u) == IF u.some THEN u.s ELSE <<>>

\* b is the layout the format table gives for message m
MatchesFormatTable(b, m) ==
    IF m.type = "v5::Hello"
        THEN b = <<5, Len(m.msg.methods)>> \o MethodBytesOf(m.msg.methods)
    ELSE IF m.type = "v5::HelloResponse"
        THEN b = <<5, AuthenticationMethodAsU8(m.msg.method)>>
    ELSE IF m.type = "v5::Request"
        THEN b = <<5, V5CommandByte(m.msg.command), 0>> \o TaggedAddress(m.msg.addr)
                    \o <<m.msg.port \div 256, m.msg.port % 256>>
    ELSE IF m.type = "v5::Response"
        THEN b = <<5, V5StatusByte(m.msg.status), 0>> \o TaggedAddress(m.msg.addr)
                    \o <<m.msg.port \div 256, m.msg.port % 256>>
    ELSE IF m.type = "v4::Request" /\ m.msg.addr.v4tag = "IPv4"
        THEN b = <<4, V4CommandByte(m.msg.command), m.msg.port \div 256, m.msg.port % 256>>
                    \o m.msg.addr.data \o UserIdBytes(m.msg.secret) \o <<0>>
    ELSE IF m.type = "v4::Request"
        THEN /\ Len(b) >= 8
             /\ SubSeq(b, 5, 7) = <<0, 0, 0>> /\ b[8] # 0
             /\ b = <<4, V4CommandByte(m.msg.command), m.msg.port \div 256, m.msg.port % 256>>
                    \o SubSeq(b, 5, 8) \o UserIdBytes(m.msg.secret) \o <<0>>
                    \o m.msg.addr.data \o <<0>>
    ELSE /\ Len(b) = 8
         /\ b = <<0, V4StatusByte(m.msg.status), m.msg.port \div 256, m.msg.port % 256>>
                    \o m.msg.addr

\* C12: encode_into leaves what the buffer held in place and appends exactly
\* the bytes the format table gives for the message, for each of the six types.
C12_EncodeAppendsFormat ==
    [][(pc = "message" /\ pc' = "encoded") =>
          /\ Len(buffer') >= Len(buffer)
          /\ SubSeq(buffer', 1, Len(buffer)) = buffer
          /\ MatchesFormatTable(Drop(buffer', Len(buffer)), req[1])]_vars

C12_Witness ==
    /\ pc = "encoded"
    /\ req[1].type = "v4::Response"
    /\ Len(buffer) = 10
    /\ Len(out[1]) = 8

(***************************************************************************)
(* Parsing: a decode operation is handed bytes a peer chose.               *)
(***************************************************************************)
MaxInputLen == 3

\* bytes that are a version, a tag, a command, a status, a length or none of these
ProbeBytes == {0, 1, 3, 4, 5, 90}

WireTypes ==
    {"v5::Hello", "v5::HelloResponse", "v5::Request", "v5::Response",
     "v4::Request", "v4::Response"}

FieldTypes ==
    {"Version", "v5::AuthenticationMethod", "v5::Command", "v4::Command",
     "v5::AddressType", "v5::Status", "v4::Status"}

\* Wire::decode of a message type or of the type of one of its fields
Decode(type, i) ==
    IF type = "Version" THEN VersionDecode(i)
    ELSE IF type = "v5::AuthenticationMethod" THEN AuthenticationMethodDecode(i)
    ELSE IF type = "v5::Command" THEN V5CommandDecode(i)
    ELSE IF type = "v4::Command" THEN V4CommandDecode(i)
    ELSE IF type = "v5::AddressType" THEN V5AddressTypeDecode(i)
    ELSE IF type = "v5::Status" THEN V5StatusDecode(i)
    ELSE IF type = "v4::Status" THEN V4StatusDecode(i)
    ELSE WireDecode(type, i)

\* IPv4 fields of a v4 Request: an ordinary address, 0.0.0.0, and 0.0.0.x
ProbeIps == {ExampleIp, Ipv4Zero, <<0, 0, 0, 1>>, <<0, 0, 0, 255>>, <<0, 0, 1, 0>>}

\* what may follow the user-id terminator of a v4 Request
ProbeTails ==
    {<<>>, <<0>>, <<97>>, <<97, 0>>, <<101, 120, 0>>, <<97, 0, 7>>, NonAscii \o <<0>>}

V4RequestInputs ==
    {<<4, c>> \o U16Bytes(80) \o ip \o u \o <<0>> \o t :
        c \in {1, 2}, ip \in ProbeIps, u \in {<<>>, <<117>>}, t \in ProbeTails}

\* encodings of valid messages, alone and followed by a byte of the next message
EncodedInputs ==
    {WireEncode(m, <<>>) \o t : m \in V5Messages, t \in {<<>>, <<7>>}}
      \cup {WireEncode(m, <<>>) \o t : m \in V4Requests, t \in {<<>>, <<7>>}}
      \cup {WireEncode(m, <<>>) \o t : m \in V4Responses, t \in {<<>>, <<7>>}}

\* tagged addresses: whole, with a byte behind them, cut short, with a zero
\* length, and with names that are and are not UTF-8
AddressInputs ==
    {<<1>> \o ExampleIp, <<1>> \o ExampleIp \o <<7>>, <<4>> \o Ip6, <<4>> \o Ip6 \o <<7>>,
     <<3, 0>>, <<3, 1, 97>>, <<3, 2, 97, 97, 7>>, <<3, 2, 97>>, <<3, 2>> \o NonAscii,
     <<3, 1, 255>>, <<3, 1, 128>>, <<3, 2, 195, 40>>, <<3, 2, 97, 195>>,
     <<3, 3, 237, 160, 128>>, <<2>> \o ExampleIp, <<0, 0>>}

\* valid v5 messages whose version byte is overwritten
WrongVersionInputs ==
    {<<b>> \o Tail(WireEncode(m, <<>>)) : m \in V5Messages, b \in {0, 4, 6}}

ParseInputs ==
    {<<b>> : b \in 0..255}
      \cup WrongVersionInputs
      \cup AddressInputs
      \cup SeqsUpTo(ProbeBytes, MaxInputLen)
      \cup V4RequestInputs
      \cup EncodedInputs

ParseInit ==
    /\ pc = "input"
    /\ buffer \in ParseInputs
    /\ n = 0
    /\ version = <<>>
    /\ hello = <<>>
    /\ method = <<>>
    /\ req = <<>>
    /\ decoded = <<>>
    /\ resolverCalls = <<>>
    /\ resolved = <<>>
    /\ out = <<>>
    /\ reads = <<>>
    /\ handlerCalls = <<>>
    /\ result = <<>>
    /\ log = <<>>

\* T::decode(&buffer[..]) for one of the types implementing Wire
ParseDecode ==
    /\ pc = "input"
    /\ \E type \in WireTypes \cup FieldTypes :
          /\ Decoded(type, Decode(type, buffer))
          /\ result' = <<Decode(type, buffer)>>
    /\ n' = Len(buffer)
    /\ pc' = "parsed"
    /\ UNCHANGED <<buffer, version, hello, method, req, resolverCalls, resolved,
                   out, reads, handlerCalls, log>>

ParseNext == ParseDecode

ParseSpec == ParseInit /\ [][ParseNext]_vars

Parsed(type) == pc = "parsed" /\ decoded[1].what = type

\* the IPv4 field of the v4 Request in `buffer`
Ip4Field == SubSeq(buffer, 5, 8)

\* 0.0.0.1 .. 0.0.0.255
InSentinelRange(ip) == SubSeq(ip, 1, 3) = <<0, 0, 0>> /\ ip[4] # 0

\* C13: a v4 Request decodes to a DomainName address if and only if its IPv4
\* field is in 0.0.0.1..0.0.0.255; outside that range it decodes to the IPv4
\* address of the field whatever follows the user-id terminator.
C13_SentinelDecidesDomain ==
    (Parsed("v4::Request") /\ result[1].k = "Ok") =>
        /\ result[1].v.addr.v4tag = "DomainName" <=> InSentinelRange(Ip4Field)
        /\ ~InSentinelRange(Ip4Field) => result[1].v.addr = V4IPv4(Ip4Field)

\* d is a non-empty run of ASCII bytes without NUL
IsAsciiName(d) == d # <<>> /\ \A i \in DOMAIN d : d[i] >= 1 /\ d[i] <= 127

\* the bytes of `buffer` behind the terminator of an empty user id
AfterEmptyUserId == Drop(buffer, 9)

\* `buffer` is a v4 Request with IPv4 field 0.0.0.1 and an empty user id
SentinelRequest ==
    /\ Parsed("v4::Request")
    /\ Len(buffer) >= 9
    /\ buffer[1] = 4 /\ buffer[2] \in {1, 2}
    /\ Ip4Field = <<0, 0, 0, 1>>
    /\ buffer[9] = 0

\* C14: a v4 Request with IPv4 field 0.0.0.1, an empty user id and a non-empty
\* NUL-terminated ASCII domain d decodes to DomainName(d); with a lone NUL in
\* place of the domain the decode is a hard failure, neither an IPv4 result
\* nor Incomplete.
C14_DomainExtension ==
    SentinelRequest =>
        LET t == AfterEmptyUserId
            d == SubSeq(t, 1, Len(t) - 1) IN
        /\ (t = <<0>>) => result[1].k = "Failure"
        /\ (t # <<>> /\ t[Len(t)] = 0 /\ IsAsciiName(d)) =>
              /\ result[1].k = "Ok"
              /\ result[1].rest = <<>>
              /\ result[1].v.addr = V4DomainName(d)

C14_Witness ==
    /\ SentinelRequest
    /\ AfterEmptyUserId = <<101, 120, 0>>
    /\ result[1].k = "Ok"
    /\ result[1].v.addr = V4DomainName(<<101, 120>>)

\* the first byte the server received is neither 4 nor 5
BadFirstByte == reads # <<>> /\ reads[1] # <<>> /\ reads[1][1] \notin {4, 5}

\* C15: when the first byte received is not a valid SOCKS version byte, the
\* connection ends at the sniff stage with an error: nothing is written to the
\* client, the resolver is not invoked and the stream handler is not invoked.
C15_BadVersionAborts ==
    BadFirstByte =>
        /\ out = <<>>
        /\ resolverCalls = <<>>
        /\ handlerCalls = <<>>
        /\ version = <<>>
        /\ pc \in {"sniff", "done"}
        /\ pc = "done" => (~result[1].ok /\ Len(reads) = 1)

C15_Witness ==
    /\ BadFirstByte
    /\ pc = "done"
    /\ result[1].kind = "InvalidData"
    /\ out = <<>>

\* Version::decode on byte b followed by t: accepted as v with t left over
VersionAccepts(b, t, v) ==
    LET r == VersionDecode(<<b>> \o t) IN r.k = "Ok" /\ r.v = v /\ r.rest = t

VersionRejects(b, t) == VersionDecode(<<b>> \o t).k \in {"Error", "Failure"}

\* the version byte of the connection has been decoded
Sniffed == reads # <<>> /\ reads[1] # <<>> /\ Took("version_decode")

C17_V4SuccessResponse ==
    (IsV4 /\ ResolverSucceeded) =>
        LET d == resolved[1].destination
            a == IF d.addr.tag = "IPv4" THEN d.addr.data ELSE <<0, 0, 0, 0>> IN
        /\ Len(out) <= 1
        /\ Len(out) = 1 =>
              /\ Len(out[1]) = 8
              /\ out[1] = <<0, 90, d.port \div 256, d.port % 256>> \o a
        /\ pc \in {"handoff", "relay"} => Len(out) = 1
        /\ pc = "done" => (Len(out) = 1 \/ result[1] = IoError("write_all"))

C17_Witness ==
    /\ IsV4 /\ ResolverSucceeded
    /\ pc = "relay"
    /\ resolved[1].destination.addr.tag = "IPv6"
    /\ req[1].addr.v4tag = "IPv4"
    /\ out = <<(<<0, 90, 1, 187, 0, 0, 0, 0>>)>>

\* C18: whatever the client sends and whatever the resolver returns, failure
\* or success with any Destination, the per-connection handshake never panics.
C18_NeverPanics == pc # "panicked"

\* r is what is left of input i after its first c bytes, for some c
IsSuffix(r, i) == \E c \in 0..Len(i) : SubSeq(i, 1, c) \o r = i

MethodTable(b) ==
    IF b = 0 THEN "None"
    ELSE IF b = 1 THEN "Gssapi"
    ELSE IF b = 2 THEN "UsernamePassword"
    ELSE IF b <= 127 THEN "IanaAssigned"
    ELSE IF b <= 254 THEN "PrivateMethod"
    ELSE "NotAcceptable"

\* C20: each of the 256 byte values decodes, without failure, to the one
\* AuthenticationMethod variant the method table assigns to it, and encoding
\* that variant and decoding the result gives the variant back.
C20_MethodMappingTotal ==
    (Parsed("v5::AuthenticationMethod") /\ Len(buffer) = 1) =>
        /\ result[1].k = "Ok"
        /\ result[1].rest = <<>>
        /\ result[1].v.tag = MethodTable(buffer[1])
        /\ result[1].v.tag \in {"IanaAssigned", "PrivateMethod"} => result[1].v.v = buffer[1]
        /\ LET e == AuthenticationMethodEncodeInto(result[1].v, <<>>)
               d == AuthenticationMethodDecode(e) IN
           /\ e = buffer
           /\ d.k = "Ok" /\ d.rest = <<>> /\ d.v = result[1].v

C20_Witness ==
    /\ Parsed("v5::AuthenticationMethod")
    /\ buffer = <<255>>
    /\ result[1].k = "Ok"
    /\ result[1].v.tag = "NotAcceptable"

\* the eight named v5 statuses, by byte value 0..7
V5StatusTable ==
    <<"Success", "GeneralFailure", "ConnectionNotAllowed", "NetworkUnreachable",
      "HostUnreachalble", "ConnectionRefused", "TTLExpired", "CommandNotSupported">>

\* the four v4 statuses, by byte value 0x5A..0x5D
V4StatusTable == <<"Success", "Rejected", "InetdNotAccessible", "InetdNotIdentified">>

\* C21: every byte decodes as a v5 Status, 0..7 to the eight named statuses
\* and any other byte b to Unassigned(b), which encodes back to b; as a v4
\* Status only 0x5A..0x5D decode, each to its named status, and every other
\* byte is a decode failure.
C21_StatusMapping ==
    /\ (Parsed("v5::Status") /\ Len(buffer) = 1) =>
          /\ result[1].k = "Ok"
          /\ result[1].rest = <<>>
          /\ buffer[1] <= 7 => result[1].v.tag = V5StatusTable[buffer[1] + 1]
          /\ buffer[1] > 7 => result[1].v = [tag |-> "Unassigned", v |-> buffer[1]]
          /\ V5StatusEncodeInto(result[1].v, <<>>) = buffer
    /\ (Parsed("v4::Status") /\ Len(buffer) = 1) =>
          IF buffer[1] \in 90..93
              THEN /\ result[1].k = "Ok"
                   /\ result[1].rest = <<>>
                   /\ result[1].v = V4StatusTable[buffer[1] - 89]
                   /\ V4StatusEncodeInto(result[1].v, <<>>) = buffer
              ELSE result[1].k \in {"Error", "Failure"}

C21_Witness ==
    /\ Parsed("v5::Status")
    /\ buffer = <<200>>
    /\ result[1].k = "Ok"
    /\ result[1].v = [tag |-> "Unassigned", v |-> 200]

\* the tag byte of the tagged address in `buffer`
AddressTag == buffer[1]

\* the name bytes the length byte of a tag-3 address announces
NamePayload == SubSeq(buffer, 3, 2 + buffer[2])

\* `buffer` holds a tag and, for tags 1, 3 and 4, all of the payload
CompleteAddress ==
    /\ Parsed("v5::AddressType")
    /\ Len(buffer) >= 1
    /\ AddressTag = 1 => Len(buffer) >= 5
    /\ AddressTag = 4 => Len(buffer) >= 17
    /\ AddressTag = 3 => (Len(buffer) >= 2 /\ Len(buffer) >= 2 + buffer[2])

\* result is the value v with everything behind the first c bytes left over
DecodedAs(v, c) ==
    result[1].k = "Ok" /\ result[1].v = v /\ result[1].rest = Drop(buffer, c)

\* an unknown tag: a Failure labelled "Invalid address type"
InvalidAddressType ==
    /\ result[1].k = "Failure"
    /\ \E i \in DOMAIN result[1].ctx : result[1].ctx[i] = "Invalid address type"

\* names that are UTF-8: ASCII only, or the two-byte character
IsUtf8Sample(p) == (\A i \in DOMAIN p : p[i] < 128) \/ p = NonAscii

\* names that are not UTF-8: a lone 0xFF, a lone continuation byte, a lead
\* byte without its continuation, a surrogate
IsNotUtf8Sample(p) ==
    p \in {<<255>>, <<128>>, <<195, 40>>, <<97, 195>>, <<237, 160, 128>>}

\* C22 as stated: tags 1, 3 and 4 followed by a complete payload decode to
\* IPv4, DomainName and IPv6, and every other tag is a Failure whose context
\* mentions "address type".
C22_TagExhaustive ==
    CompleteAddress =>
        /\ AddressTag = 1 => DecodedAs(V5IPv4(SubSeq(buffer, 2, 5)), 5)
        /\ AddressTag = 3 => DecodedAs(V5DomainName(NamePayload), 2 + buffer[2])
        /\ AddressTag = 4 => DecodedAs(V5IPv6(SubSeq(buffer, 2, 17)), 17)
        /\ AddressTag \notin {1, 3, 4} => InvalidAddressType

\* C22 amended: as above, except that tag 3 decodes to DomainName when its
\* complete payload is valid UTF-8.
C22_TagExhaustiveUtf8 ==
    CompleteAddress =>
        /\ AddressTag = 1 => DecodedAs(V5IPv4(SubSeq(buffer, 2, 5)), 5)
        /\ (AddressTag = 3 /\ IsUtf8Sample(NamePayload)) =>
              DecodedAs(V5DomainName(NamePayload), 2 + buffer[2])
        /\ AddressTag = 4 => DecodedAs(V5IPv6(SubSeq(buffer, 2, 17)), 17)
        /\ AddressTag \notin {1, 3, 4} => InvalidAddressType

C22_Witness ==
    /\ CompleteAddress
    /\ buffer = <<2>> \o ExampleIp
    /\ InvalidAddressType

\* C23: a length-prefixed domain name whose payload is not valid UTF-8 is a
\* decode failure that returns no value; a payload that is valid UTF-8 decodes
\* to a name of exactly those bytes, none replaced or dropped.
C23_InvalidUtf8Fails ==
    (CompleteAddress /\ AddressTag = 3) =>
        /\ IsNotUtf8Sample(NamePayload) =>
              /\ result[1].k \in {"Error", "Failure"}
              /\ result[1].v = <<>>
        /\ IsUtf8Sample(NamePayload) =>
              /\ result[1].k = "Ok"
              /\ result[1].v.tag = "DomainName"
              /\ result[1].v.data = NamePayload

C23_Witness ==
    /\ CompleteAddress
    /\ buffer = <<3, 2, 195, 40>>
    /\ result[1].k = "Error"

V5WireTypes == {"v5::Hello", "v5::HelloResponse", "v5::Request", "v5::Response"}

\* C24: a buffer whose first byte is not 5 is never accepted as a v5 Hello,
\* HelloResponse, Request or Response: the decode fails.
C24_V5VersionVerified ==
    (pc = "parsed" /\ decoded[1].what \in V5WireTypes /\ buffer # <<>> /\ buffer[1] # 5) =>
        result[1].k \in {"Error", "Failure"}

C24_Witness ==
    /\ Parsed("v5::Request")
    /\ buffer = <<4, 1, 0, 1>> \o ExampleIp \o <<0, 80>>
    /\ result[1].k = "Error"

\* the io::Error of the v5-to-v4 address conversion
Ipv6Unsupported == Unsupported("Socks v4 does not support IPv6")

\* C25: converting a v5 AddressType to v4 fails for IPv6 and keeps an IPv4
\* address or domain name as it is; converting v4 to v5 and back is the
\* identity; a v4 connect to an IPv6 target returns the Unsupported error with
\* nothing written, and to any other target builds its Request with the
\* target's address.
C25_V4AddressConversion ==
    [][(IsClientV4 /\ pc = "connect") =>
         /\ \A a \in V5Addresses :
               LET c == V4AddressTryFrom(a) IN
               IF a.tag = "IPv6" THEN ~c.ok
               ELSE c.ok /\ c.v.v4tag = a.tag /\ c.v.data = a.data
         /\ \A a \in V4Addresses :
               V4AddressTryFrom(V5AddressFromV4(a)) = [ok |-> TRUE, v |-> a]
         /\ \A t \in Targets, w \in BOOLEAN, rd \in Replies(V4Replies) :
               ClientFinish(ClientV4Run(t, w, rd)) =>
                  IF t.addr.tag = "IPv6"
                      THEN /\ result' = <<Ipv6Unsupported>>
                           /\ out' = <<>> /\ req' = <<>> /\ reads' = <<>>
                      ELSE /\ result'[1] # Ipv6Unsupported
                           /\ req'[1].addr.v4tag = t.addr.tag
                           /\ req'[1].addr.data = t.addr.data
                           /\ req'[1].port = t.port]_vars

C25_Witness ==
    /\ IsClientV4 /\ Returned
    /\ result = <<Ipv6Unsupported>>
    /\ out = <<>>

(***************************************************************************)
(* Server::run: the accept loop and the connection units it spawns.  Each  *)
(* variable holds one value per unit, in accept order; `log` is the log of *)
(* the loop itself.                                                        *)
(***************************************************************************)
MaxUnits == 2

\* first reads of a unit: a Hello offering None, a Hello offering only
\* UsernamePassword, a v4 Request, a byte that is no version
UnitFirstReads ==
    {<<5, 1, 0>>, <<5, 1, 2>>, <<4, 1>> \o U16Bytes(80) \o ExampleIp \o <<0>>, <<6>>}

\* second reads of a v5 unit: a Request, and one with an unknown command
UnitSecondReads ==
    {<<5, 1, 0, 1>> \o ExampleIp \o U16Bytes(80), <<5, 9, 0, 1>> \o ExampleIp \o U16Bytes(80)}

UnitResolverOutcomes ==
    {[ok |-> TRUE, stream |-> "remote1",
      destination |-> [addr |-> V5IPv4(ExampleIp), port |-> 80], err |-> ResolverError],
     [ok |-> TRUE, stream |-> "remote2",
      destination |-> [addr |-> V5DomainName(LongName), port |-> 80], err |-> ResolverError],
     [ok |-> FALSE, stream |-> "none",
      destination |-> [addr |-> V5IPv4(Ipv4Zero), port |-> 0], err |-> ResolverError]}

\* the locals of handle_client at its entry
FreshUnit ==
    [pc |-> "read_version", buffer |-> <<>>, n |-> 0, version |-> <<>>, hello |-> <<>>,
     method |-> <<>>, req |-> <<>>, decoded |-> <<>>, resolverCalls |-> <<>>,
     resolved |-> <<>>, out |-> <<>>, reads |-> <<>>, handlerCalls |-> <<>>,
     result |-> <<>>]

\* `?` and the final return of handle_client
UnitReturn(s, r) == [s EXCEPT !.pc = "done", !.result = <<r>>]

UnitDecoded(s, what, r) == [s EXCEPT !.decoded = Append(@, [what |-> what, k |-> r.k])]

\* handle_client up to the dispatch on the version
UnitStepsSniff(s) ==
    IF s.pc = "read_version"
        THEN {[s EXCEPT !.buffer = ReadBuf(s.buffer, b), !.n = Len(b),
                        !.reads = Append(@, b), !.pc = "sniff"] : b \in UnitFirstReads}
               \cup {UnitReturn(s, IoError("read_buf"))}
    ELSE LET r == VersionDecode(SubSeq(s.buffer, 1, s.n))
             d == UnitDecoded(s, "Version", r) IN
         IF r.k = "Ok"
             THEN {[d EXCEPT !.version = <<r.v>>,
                             !.pc = IF r.v = "Socks4" THEN "v4_decode" ELSE "v5_hello"]}
             ELSE {UnitReturn(d, MapNomError(r))}

\* handle_client_v4
UnitStepsV4(s) ==
    IF s.pc = "v4_decode"
        THEN LET r == V4RequestDecode(s.buffer)
                 d == UnitDecoded(s, "Request", r) IN
             IF r.k = "Ok" THEN {[d EXCEPT !.req = <<r.v>>, !.pc = "v4_resolve"]}
             ELSE {UnitReturn(d, MapNomError(r))}
    ELSE IF s.pc = "v4_resolve"
        THEN {[s EXCEPT !.resolverCalls = Append(@, V4ConnectionRequest(s.req[1])),
                        !.resolved = <<o>>, !.pc = "v4_respond"] : o \in UnitResolverOutcomes}
    ELSE LET o == s.resolved[1]
             response == IF o.ok THEN V4SuccessResponse(o.destination)
                         ELSE V4FailureResponse(s.req[1])
             bytes == V4ResponseEncodeInto(response, <<>>)
             b == [s EXCEPT !.buffer = bytes]
             w == [b EXCEPT !.out = Append(@, bytes)] IN
         {IF o.ok THEN [w EXCEPT !.pc = "handoff"] ELSE UnitReturn(w, o.err),
          UnitReturn(b, IoError("write_all"))}

\* handle_client_v5 up to the Request read
UnitStepsV5Hello(s) ==
    IF s.pc = "v5_hello"
        THEN LET r == HelloDecode(s.buffer)
                 d == UnitDecoded(s, "Hello", r) IN
             IF r.k = "Ok"
                 THEN {[d EXCEPT !.hello = <<r.v>>, !.method = <<SelectMethod(r.v)>>,
                                 !.buffer = HelloResponseEncodeInto(
                                                [method |-> SelectMethod(r.v)], <<>>),
                                 !.pc = "v5_write_hello"]}
                 ELSE {UnitReturn(d, MapNomError(r))}
    ELSE IF s.pc = "v5_write_hello"
        THEN LET w == [s EXCEPT !.out = Append(@, s.buffer)] IN
             {IF s.method[1] = MethodNotAcceptable
                 THEN UnitReturn(w, Unsupported(
                          "Client requested only unsupported authentication methods"))
                 ELSE [w EXCEPT !.pc = "v5_read_request"],
              UnitReturn(s, IoError("write_all"))}
    ELSE {[s EXCEPT !.buffer = ReadBuf(<<>>, b), !.n = Len(b),
                    !.reads = Append(@, b), !.pc = "v5_decode"] : b \in UnitSecondReads}
           \cup {UnitReturn([s EXCEPT !.buffer = <<>>], IoError("read_buf"))}

\* handle_client_v5 from the Request decode on
UnitStepsV5Request(s) ==
    IF s.pc = "v5_decode"
        THEN LET r == V5RequestDecode(SubSeq(s.buffer, 1, s.n))
                 d == UnitDecoded(s, "Request", r) IN
             IF r.k = "Ok" THEN {[d EXCEPT !.req = <<r.v>>, !.pc = "v5_resolve"]}
             ELSE {UnitReturn(d, MapNomError(r))}
    ELSE IF s.pc = "v5_resolve"
        THEN {[s EXCEPT !.resolverCalls = Append(@, V5ConnectionRequest(s.req[1])),
                        !.resolved = <<o>>, !.pc = "v5_respond"] : o \in UnitResolverOutcomes}
    ELSE LET o == s.resolved[1]
             response == IF o.ok THEN V5SuccessResponse(o.destination)
                         ELSE V5FailureResponse(s.req[1])
             bytes == V5ResponseEncodeInto(response, <<>>)
             b == [s EXCEPT !.buffer = bytes]
             w == [b EXCEPT !.out = Append(@, bytes)] IN
         IF V5AddressTypeEncodePanics(response.addr)
             THEN {[s EXCEPT !.pc = "panicked", !.result = <<Panic("Domain name too long")>>]}
             ELSE {IF o.ok THEN [w EXCEPT !.pc = "handoff"] ELSE UnitReturn(w, o.err),
                   UnitReturn(b, IoError("write_all"))}

\* handle_stream(stream, remote_stream).await
UnitStepsRelay(s) ==
    IF s.pc = "handoff"
        THEN {[s EXCEPT !.handlerCalls = Append(@, [client |-> "client",
                                                    remote |-> s.resolved[1].stream]),
                        !.pc = "relay"]}
    ELSE {UnitReturn(s, OkUnit), UnitReturn(s, HandlerError)}

\* what one unit can do next, from its own locals and its own stream alone
UnitSteps(s) ==
    IF s.pc \in {"read_version", "sniff"} THEN UnitStepsSniff(s)
    ELSE IF s.pc \in {"v4_decode", "v4_resolve", "v4_respond"} THEN UnitStepsV4(s)
    ELSE IF s.pc \in {"v5_hello", "v5_write_hello", "v5_read_request"} THEN UnitStepsV5Hello(s)
    ELSE IF s.pc \in {"v5_decode", "v5_resolve", "v5_respond"} THEN UnitStepsV5Request(s)
    ELSE IF s.pc \in {"handoff", "relay"} THEN UnitStepsRelay(s)
    ELSE {}

\* the locals and the stream of unit u
UnitOf(u) ==
    [pc |-> pc[u], buffer |-> buffer[u], n |-> n[u], version |-> version[u],
     hello |-> hello[u], method |-> method[u], req |-> req[u], decoded |-> decoded[u],
     resolverCalls |-> resolverCalls[u], resolved |-> resolved[u], out |-> out[u],
     reads |-> reads[u], handlerCalls |-> handlerCalls[u], result |-> result[u]]

\* a unit that shares the listener's buffer with every other unit
SetUnitSharingBuffer(u, s) ==
    /\ pc' = [pc EXCEPT ![u] = s.pc]
    /\ buffer' = [v \in DOMAIN buffer |-> s.buffer]
    /\ n' = [n EXCEPT ![u] = s.n]
    /\ version' = [version EXCEPT ![u] = s.version]
    /\ hello' = [hello EXCEPT ![u] = s.hello]
    /\ method' = [method EXCEPT ![u] = s.method]
    /\ req' = [req EXCEPT ![u] = s.req]
    /\ decoded' = [decoded EXCEPT ![u] = s.decoded]
    /\ resolverCalls' = [resolverCalls EXCEPT ![u] = s.resolverCalls]
    /\ resolved' = [resolved EXCEPT ![u] = s.resolved]
    /\ out' = [out EXCEPT ![u] = s.out]
    /\ reads' = [reads EXCEPT ![u] = s.reads]
    /\ handlerCalls' = [handlerCalls EXCEPT ![u] = s.handlerCalls]
    /\ result' = [result EXCEPT ![u] = s.result]

\* the task spawned for unit u owns its stream, its buffer and its clones of
\* the two closures: a step of it assigns to these alone
SetUnit(u, s) ==
    /\ pc' = [pc EXCEPT ![u] = s.pc]
    /\ buffer' = [buffer EXCEPT ![u] = s.buffer]
    /\ n' = [n EXCEPT ![u] = s.n]
    /\ version' = [version EXCEPT ![u] = s.version]
    /\ hello' = [hello EXCEPT ![u] = s.hello]
    /\ method' = [method EXCEPT ![u] = s.method]
    /\ req' = [req EXCEPT ![u] = s.req]
    /\ decoded' = [decoded EXCEPT ![u] = s.decoded]
    /\ resolverCalls' = [resolverCalls EXCEPT ![u] = s.resolverCalls]
    /\ resolved' = [resolved EXCEPT ![u] = s.resolved]
    /\ out' = [out EXCEPT ![u] = s.out]
    /\ reads' = [reads EXCEPT ![u] = s.reads]
    /\ handlerCalls' = [handlerCalls EXCEPT ![u] = s.handlerCalls]
    /\ result' = [result EXCEPT ![u] = s.result]

\* the loop of run has not returned
LoopRunning == \A i \in DOMAIN log : log[i] # "accept_error"

RunInit ==
    /\ pc = <<>> /\ buffer = <<>> /\ n = <<>> /\ version = <<>> /\ hello = <<>>
    /\ method = <<>> /\ req = <<>> /\ decoded = <<>> /\ resolverCalls = <<>>
    /\ resolved = <<>> /\ out = <<>> /\ reads = <<>> /\ handlerCalls = <<>>
    /\ result = <<>> /\ log = <<>>

\* listener.accept() returns a stream: clone the closures, spawn the unit
RunAccept ==
    /\ LoopRunning
    /\ Len(pc) < MaxUnits
    /\ pc' = Append(pc, FreshUnit.pc)
    /\ buffer' = Append(buffer, FreshUnit.buffer)
    /\ n' = Append(n, FreshUnit.n)
    /\ version' = Append(version, FreshUnit.version)
    /\ hello' = Append(hello, FreshUnit.hello)
    /\ method' = Append(method, FreshUnit.method)
    /\ req' = Append(req, FreshUnit.req)
    /\ decoded' = Append(decoded, FreshUnit.decoded)
    /\ resolverCalls' = Append(resolverCalls, FreshUnit.resolverCalls)
    /\ resolved' = Append(resolved, FreshUnit.resolved)
    /\ out' = Append(out, FreshUnit.out)
    /\ reads' = Append(reads, FreshUnit.reads)
    /\ handlerCalls' = Append(handlerCalls, FreshUnit.handlerCalls)
    /\ result' = Append(result, FreshUnit.result)
    /\ log' = Append(log, "accept")

\* listener.accept().await? fails: run returns the error
RunAcceptFails ==
    /\ LoopRunning
    /\ log' = Append(log, "accept_error")
    /\ UNCHANGED <<pc, buffer, n, version, hello, method, req, decoded, resolverCalls,
                   resolved, out, reads, handlerCalls, result>>

\* the spawned task of unit u runs handle_client one step further; its error
\* is logged inside the task and goes nowhere else
RunUnitStep ==
    \E u \in DOMAIN pc :
        \E s \in UnitSteps(UnitOf(u)) :
            /\ SetUnit(u, s)
            /\ UNCHANGED log

RunNext == RunAccept \/ RunAcceptFails \/ RunUnitStep

RunSpec == RunInit /\ [][RunNext]_vars

UnitAborted(u) == pc[u] = "done" /\ ~result[u][1].ok

UnitEstablished(u) == Len(handlerCalls[u]) > 0

\* unit u takes part in the step
UnitActs(u) == u \in DOMAIN pc /\ UnitOf(u)' # UnitOf(u)

UnitUntouched(v) == UnitOf(v)' = UnitOf(v)

\* C26: connections run as independent units: a step of one unit, a failing
\* one included, leaves the accept loop and the buffer, the bytes written and
\* the outcome of every other unit as they were; after a unit has aborted the
\* loop still accepts and every other unit can still do whatever it could do
\* alone.
C26_UnitsIsolated ==
    /\ [][\A u \in DOMAIN pc :
             UnitActs(u) => /\ log' = log
                            /\ \A v \in DOMAIN pc \ {u} : UnitUntouched(v)]_vars
    /\ []((LoopRunning /\ Len(pc) < MaxUnits) => ENABLED RunAccept)
    /\ [](\A v \in DOMAIN pc :
             \A s \in UnitSteps(UnitOf(v)) : ENABLED (SetUnit(v, s) /\ UNCHANGED log))

\* one unit aborted on a decode failure before the loop accepted the next
\* one, which went on to be established
C26_Witness ==
    /\ Len(pc) = 2
    /\ LoopRunning
    /\ UnitAborted(1) /\ result[1][1].kind = "InvalidData"
    /\ reads[2] # <<>> /\ buffer[2] # buffer[1]
    /\ UnitEstablished(2) /\ pc[2] = "relay"

(***************************************************************************)
(* The connection unit under the assumption that every read, write and     *)
(* resolver call it awaits returns: no step of handle_client is postponed  *)
(* forever.                                                                *)
(***************************************************************************)
Positions ==
    {"read_version", "sniff", "v4_decode", "v4_resolve", "v4_respond", "v5_hello",
     "v5_write_hello", "v5_read_request", "v5_decode", "v5_resolve", "v5_respond",
     "handoff", "relay", "done", "panicked"}

\* the unit leaves the position it is at: the read, write or resolver call
\* it awaits returns and the task runs on to its next await.  Nothing is
\* assumed about the stream handler, which may relay forever.
Advance ==
    /\ pc \notin {"relay", "done", "panicked"}
    /\ pc' \in Positions
    /\ pc' # pc

FairSpec == Spec /\ WF_pc(Advance)

\* the steps of handle_client and handle_client_v4, in program order
V4Steps ==
    <<"read_version", "version_decode", "request_decode", "resolve", "respond",
      "handoff", "relay_end">>

\* the steps of handle_client and handle_client_v5, in program order
V5Steps ==
    <<"read_version", "version_decode", "hello_decode", "hello_response_write",
      "request_read", "request_decode", "resolve", "respond", "handoff", "relay_end">>

IsPrefix(a, b) == Len(a) <= Len(b) /\ SubSeq(b, 1, Len(a)) = a

\* the steps taken so far are an initial part of the program order
StepsInOrder == IsPrefix(log, IF IsV5 THEN V5Steps ELSE V4Steps)

Terminal == Established \/ Aborted

\* C27: within one unit the steps occur strictly in program order, one at a
\* time and none twice; if every read, write and resolver call returns, the
\* unit eventually is Established or Aborted.
C27_SequentialAndTerminates ==
    /\ []StepsInOrder
    /\ [][Len(log') = Len(log) + 1]_vars
    /\ <>Terminal

\* the read the Request is decoded from
RequestRead == IF IsV5 THEN reads[2] ELSE reads[1]

\* the same bytes with the command byte of Connect
AsConnect(b) == [b EXCEPT ![2] = 1]

\* what the Request decode makes of the same read with command Connect
ConnectTwin ==
    IF IsV5 THEN V5RequestDecode(AsConnect(RequestRead))
    ELSE V4RequestDecode(AsConnect(RequestRead))

TwinConnectionRequest ==
    IF IsV5 THEN V5ConnectionRequest(ConnectTwin.v) ELSE V4ConnectionRequest(ConnectTwin.v)

\* the Response the Connect twin is answered with under the same resolver outcome
TwinResponseBytes ==
    IF IsV5
        THEN V5ResponseEncodeInto(
                 IF resolved[1].ok THEN V5SuccessResponse(resolved[1].destination)
                 ELSE V5FailureResponse(ConnectTwin.v), <<>>)
        ELSE V4ResponseEncodeInto(
                 IF resolved[1].ok THEN V4SuccessResponse(resolved[1].destination)
                 ELSE V4FailureResponse(ConnectTwin.v), <<>>)

ResponseWritten == Len(out) = (IF IsV5 THEN 2 ELSE 1)

\* the Request decode ran on a read of the right version whose command byte
\* names no command
UnknownCommand ==
    /\ Took("request_decode")
    /\ Len(RequestRead) >= 2
    /\ RequestRead[1] = (IF IsV5 THEN 5 ELSE 4)
    /\ RequestRead[2] \notin (IF IsV5 THEN {1, 2, 3} ELSE {1, 2})

\* C28: the command is not dispatched on: a Request with command Bind or
\* UdpAssociate leads to the resolver call, the Response bytes and the
\* handoff that the same Request with command Connect leads to; a Request
\* with an unknown command byte is a decode failure that ends the connection
\* with no resolver call and no Response written.
C28_CommandNotDispatched ==
    /\ req # <<>> =>
            /\ ConnectTwin.k = "Ok"
            /\ ConnectTwin.v = [req[1] EXCEPT !.command = "Connect"]
            /\ resolverCalls # <<>> => resolverCalls = <<TwinConnectionRequest>>
            /\ ResponseWritten => out[Len(out)] = TwinResponseBytes
            /\ handlerCalls # <<>> =>
                    handlerCalls = <<[client |-> "client", remote |-> resolved[1].stream]>>
    /\ UnknownCommand =>
            /\ pc = "done"
            /\ LastDecode.k = "Failure"
            /\ result[1].kind = "InvalidData"
            /\ req = <<>>
            /\ resolverCalls = <<>>
            /\ ~ResponseWritten
            /\ handlerCalls = <<>>

\* a v5 Request with command Bind went through to the handoff
C28_Witness ==
    /\ IsV5
    /\ req # <<>> /\ req[1].command = "Bind"
    /\ req[1].addr = V5IPv4(ExampleIp)
    /\ Len(resolverCalls) = 1
    /\ ResponseWritten
    /\ pc = "relay"

\* the v5 variant holding the value of the decoded address
SameValuedV5(a) ==
    IF IsV5 THEN a
    ELSE IF a.v4tag = "IPv4" THEN [tag |-> "IPv4", data |-> a.data]
    ELSE [tag |-> "DomainName", data |-> a.data]

\* C29: the ConnectionRequest handed to the resolver holds the address and
\* the port of the decoded Request and nothing else: a v5 address as it is,
\* a v4 address as the v5 variant of the same value, the port as it is;
\* neither the command nor the v4 user id has a part in it.
C29_ConnectionRequestExact ==
    resolverCalls # <<>> =>
        /\ req # <<>>
        /\ resolverCalls =
              <<[destination |-> [addr |-> SameValuedV5(req[1].addr), port |-> req[1].port]]>>
        /\ IsV4 => req[1].port = reads[1][3] * 256 + reads[1][4]
        /\ (IsV4 /\ req[1].addr.v4tag = "IPv4") => req[1].addr.data = SubSeq(reads[1], 5, 8)

\* a v4 Bind for a domain name, sent with a user id, reached the resolver
C29_Witness ==
    /\ IsV4
    /\ Len(resolverCalls) = 1
    /\ req[1].command = "Bind"
    /\ req[1].addr.v4tag = "DomainName"
    /\ reads[1][9] = 117
    /\ resolverCalls[1].destination.port = 80

\* the index of the first NUL of b at or after `from`, 0 when there is none
NulAfter(b, from) ==
    IF \E i \in from..Len(b) : b[i] = 0
        THEN CHOOSE i \in from..Len(b) : b[i] = 0 /\ \A j \in from..(i - 1) : b[j] # 0
        ELSE 0

\* where the wire format ends a v4 Request: behind the user id, or behind the
\* domain name when the IPv4 field is in the sentinel range
V4MessageLen(b) ==
    LET u == NulAfter(b, 9)
        d == NulAfter(b, u + 1) IN
    IF u = 0 THEN Len(b)
    ELSE IF ~InSentinelRange(SubSeq(b, 5, 8)) THEN u
    ELSE IF d = 0 THEN Len(b) ELSE d

\* where the wire format ends a v5 Request: behind the port
V5MessageLen(b) ==
    LET alen == IF b[4] = 1 THEN 4 ELSE IF b[4] = 4 THEN 16 ELSE 1 + b[5] IN
    4 + alen + 2

\* the Request of the read without what follows its end
MessageOf(b) == SubSeq(b, 1, IF IsV5 THEN V5MessageLen(b) ELSE V4MessageLen(b))

\* the ConnectionRequest the message alone asks for
MessageConnectionRequest ==
    IF IsV5 THEN V5ConnectionRequest(V5RequestDecode(MessageOf(RequestRead)).v)
    ELSE V4ConnectionRequest(V4RequestDecode(MessageOf(RequestRead)).v)

\* C30: bytes that share a read with a handshake message and follow its end
\* are discarded: the v5 Request is decoded from the second read alone,
\* whatever followed the Hello in the first; what follows a Request in its
\* read reaches neither the resolver nor the stream handler.
C30_TrailingDiscarded ==
    /\ (IsV5 /\ Took("request_decode")) =>
            /\ Len(reads) = 2
            /\ LastDecode.k = V5RequestDecode(reads[2]).k
            /\ req # <<>> => req[1] = V5RequestDecode(reads[2]).v
    /\ resolverCalls # <<>> => resolverCalls = <<MessageConnectionRequest>>
    /\ handlerCalls # <<>> =>
            handlerCalls = <<[client |-> "client", remote |-> resolved[1].stream]>>

====
